---- MODULE Spec2Model ----
(***************************************************************************)
(* Verification model of the Alter/Ego retrieval memory engine             *)
(* (src/src/alter_ego/alter_ego_computer.py): chunker, ingestion pipeline, *)
(* retrieval assembler, duplicate scanner, consolidation planner, journal, *)
(* change watcher, configuration loader and model-name parsers; and of the *)
(* shell's model warm start (src/main/alter_shell.py,                      *)
(* src/main/chaos_rag_wrapper.py).                                         *)
(*                                                                         *)
(* Ten specifications share the module:                                    *)
(*   SpecChunk        chunk_text run statement by statement                *)
(*   SpecRetrieve     retrieve_context over ranked query results           *)
(*   SpecConsolidate  consolidate_files over filename groups               *)
(*   SpecScan         scan_dupes over a tree of files                      *)
(*   SpecJournal      save_memory and save_state_note against the clock    *)
(*   SpecWatch        the change watcher dispatching events to ingest_path *)
(*   Spec             ingest_path against a changing file system           *)
(*   SpecConfig       load_config over the documents of a config file      *)
(*   SpecParse        the two parsers of embed_model_name on one string    *)
(*   SpecShell        select_model racing the warm-start threads           *)
(* Each one leaves the variables of the others at their idle value.        *)
(*                                                                         *)
(* Text is a sequence of one-character strings.  A SHA-1 digest is         *)
(* modelled collision-free, as the tagged byte sequence it was computed    *)
(* from.                                                                   *)
(***************************************************************************)
EXTENDS Integers, Sequences, FiniteSets, TLC

VARIABLES
    ck,       \* chunk_text call frame: pc, txt, size, overlap, i, chunks
    rc,       \* retrieve_context call: ranked hits, top_k, contexts, result
    cf,       \* consolidate_files call: groups, strategy, plan, cursor, log
    mtime,    \* os.path.getmtime of the files consolidation looks at
    present,  \* the files consolidation looks at that still exist
    fs,       \* file system seen by ingestion: path -> state and content
    docs,     \* bank.docs: chunk id -> stored record
    ing,      \* ingest_path call frame
    runs,     \* summaries of the last two finished ingest_path calls
    calls,    \* number of ingest_path calls made so far
    fsOps,    \* number of file-system changes made so far
    strictIds, \* TRUE iff the vector store rejects an upsert with repeated ids
    sd,       \* scan_dupes call frame: pass, cursor, groups, report
    jn,       \* journal: clock, bank.mem, bank.state, log of the save calls
    w,        \* change watcher: observer thread, event queue, dispatch log
    sh,       \* AlterShell and the shared model cache: selection, threads
    pn,       \* the two embedding model-name parsers applied to one string
    lc        \* load_config call: the config file and the result

vars == <<ck, rc, cf, mtime, present, fs, docs, ing, runs, calls, fsOps, strictIds,
          sd, jn, w, sh, pn, lc>>

----------------------------------------------------------------------------
(* Generic helpers *)

Min(a, b) == IF a < b THEN a ELSE b
Max(a, b) == IF a > b THEN a ELSE b

Range(s) == {s[n] : n \in 1..Len(s)}

RECURSIVE SeqsUpTo(_, _)
SeqsUpTo(S, n) ==
    IF n = 0 THEN {<<>>}
    ELSE LET shorter == SeqsUpTo(S, n - 1)
         IN  shorter \cup {Append(s, x) : s \in {t \in shorter : Len(t) = n - 1}, x \in S}

\* Python s[a:b], negative indices counted from the end.
PySlice(s, a, b) ==
    LET n  == Len(s)
        lo == IF a < 0 THEN Max(a + n, 0) ELSE Min(a, n)
        hi == IF b < 0 THEN Max(b + n, 0) ELSE Min(b, n)
    IN  IF lo < hi THEN SubSeq(s, lo + 1, hi) ELSE <<>>

----------------------------------------------------------------------------
(* Chunker: clean_text and chunk_text *)

MaxLen  == 4    \* longest input text of SpecChunk
MaxSize == 3    \* largest size / overlap argument of SpecChunk

Chars == {"a", "b", " ", "\t", "\n", "\r"}
Whitespace == {" ", "\t", "\n", "\r"}

\* s.replace("\r\n", "\n")
RECURSIVE ReplaceCRLF(_)
ReplaceCRLF(s) ==
    IF Len(s) = 0 THEN <<>>
    ELSE IF Len(s) >= 2 /\ s[1] = "\r" /\ s[2] = "\n"
         THEN <<"\n">> \o ReplaceCRLF(SubSeq(s, 3, Len(s)))
         ELSE <<s[1]>> \o ReplaceCRLF(Tail(s))

\* re.sub(r"[ \t]+", " ", s)
RECURSIVE CollapseBlanks(_)
CollapseBlanks(s) ==
    IF Len(s) = 0 THEN <<>>
    ELSE IF s[1] \in {" ", "\t"}
         THEN IF Len(s) >= 2 /\ s[2] \in {" ", "\t"}
              THEN CollapseBlanks(Tail(s))
              ELSE <<" ">> \o CollapseBlanks(Tail(s))
         ELSE <<s[1]>> \o CollapseBlanks(Tail(s))

\* str.strip()
RECURSIVE LStrip(_)
LStrip(s) == IF Len(s) > 0 /\ s[1] \in Whitespace THEN LStrip(Tail(s)) ELSE s

RECURSIVE RStrip(_)
RStrip(s) ==
    IF Len(s) > 0 /\ s[Len(s)] \in Whitespace
    THEN RStrip(SubSeq(s, 1, Len(s) - 1)) ELSE s

Strip(s) == RStrip(LStrip(s))

clean_text(s) == Strip(CollapseBlanks(ReplaceCRLF(s)))

\* One pass of the while loop of chunk_text: append txt[i:i+size], advance i.
ChunkLoopBody(txt, size, overlap, i, chunks) ==
    [i |-> i + (size - overlap), chunks |-> Append(chunks, PySlice(txt, i, i + size))]

\* The while loop of chunk_text, for arguments on which it ends.
RECURSIVE ChunkLoop(_, _, _, _, _)
ChunkLoop(txt, size, overlap, i, chunks) ==
    IF i < Len(txt)
    THEN LET nxt == ChunkLoopBody(txt, size, overlap, i, chunks)
         IN  ChunkLoop(txt, size, overlap, nxt.i, nxt.chunks)
    ELSE chunks

chunk_text(txt, size, overlap) ==
    LET t == clean_text(txt)
    IN  IF Len(t) <= size THEN <<t>> ELSE ChunkLoop(t, size, overlap, 0, <<>>)

----------------------------------------------------------------------------
(* Idle values: what a specification leaves in the variables it does not use *)

IdleCk == [pc |-> "idle", src |-> <<>>, txt |-> <<>>, size |-> 0, overlap |-> 0,
           i |-> 0, chunks |-> <<>>]

IdleRc == [pc |-> "idle", docsRanked |-> <<>>, memRanked |-> <<>>, top_k |-> 0,
           contexts |-> <<>>, joined |-> <<>>, result |-> <<>>]

IdleCf == [pc |-> "idle", strategy |-> "newest", only_list |-> FALSE,
           filename_dupes |-> <<>>, actions |-> <<>>, g |-> 1, r |-> 1,
           before |-> {}, asked |-> <<>>]

IdleIng == [pc |-> "idle", root |-> [dir |-> <<>>, stem |-> "data", ext |-> ""],
            files |-> <<>>, k |-> 1, txt |-> <<>>, batch |-> <<>>, v0 |-> 0,
            touched |-> {}]

\* the files ingestion reads, while the other specifications run
IdleFs == <<>>

IdleSd == [pc |-> "idle", k |-> 1, filename_dupes |-> <<>>, hash_to_paths |-> <<>>,
           exact_dupes |-> <<>>]

IdleJn == [clock |-> [sec |-> 0, sub |-> 0], mem |-> <<>>, state |-> <<>>,
           saved |-> <<>>]

IdleSh == [main |-> "off", sel_dir |-> <<>>, sel_name |-> <<>>, cache |-> <<>>,
           model_dir |-> <<>>, model_name |-> <<>>, model |-> <<>>,
           ready |-> FALSE, ready_by |-> 0, threads |-> <<>>, selects |-> 0]

IdlePn == [pc |-> "idle", model_name |-> <<>>, cfg |-> <<>>, embedder |-> <<>>]

IdleLc == [pc |-> "idle", file |-> <<>>, result |-> <<>>, written |-> FALSE]


IdleW == [observer |-> "off", watchdog_ok |-> TRUE, printed |-> <<>>,
          survives |-> TRUE, queue |-> <<>>, handled |-> <<>>,
          bursts |-> 0, last |-> <<>>]

----------------------------------------------------------------------------
(* SpecChunk: one call of chunk_text(txt, size, overlap), a statement at a  *)
(* time, for every text up to MaxLen characters and every size and overlap  *)
(* up to MaxSize.                                                           *)

\* A loop that advances by at least one character appends at most
\* Len(txt) chunks; the model stops following a run at MaxChunks.
MaxChunks == MaxLen + 2

InitChunk ==
    /\ \E src \in SeqsUpTo(Chars, MaxLen), size \in 1..MaxSize, overlap \in 0..MaxSize :
          ck = [IdleCk EXCEPT !.pc = "call", !.src = src, !.size = size,
                              !.overlap = overlap]
    /\ rc = IdleRc
    /\ cf = IdleCf
    /\ mtime = <<>>
    /\ present = {}
    /\ fs = IdleFs
    /\ docs = <<>>
    /\ ing = IdleIng
    /\ runs = <<>>
    /\ calls = 0
    /\ fsOps = 0
    /\ strictIds = TRUE
    /\ sd = IdleSd
    /\ jn = IdleJn
    /\ w = IdleW
    /\ sh = IdleSh
    /\ pn = IdlePn
    /\ lc = IdleLc

\* the single-chunk return left out: every text goes through the loop
ChunkEnterNoShortcut ==
    /\ ck.pc = "call"
    /\ ck' = [ck EXCEPT !.pc = "loop", !.txt = clean_text(ck.src), !.chunks = <<>>,
                        !.i = 0]

\* txt = clean_text(txt); if len(txt) <= size: return [txt]; chunks = []; i = 0
ChunkEnter ==
    /\ ck.pc = "call"
    /\ LET t == clean_text(ck.src)
       IN  ck' = IF Len(t) <= ck.size
                 THEN [ck EXCEPT !.pc = "done", !.txt = t, !.chunks = <<t>>]
                 ELSE [ck EXCEPT !.pc = "loop", !.txt = t, !.chunks = <<>>, !.i = 0]

\* while i < len(txt): chunk = txt[i:i+size]; chunks.append(chunk); i += size - overlap
ChunkIterate ==
    /\ ck.pc = "loop"
    /\ ck.i < Len(ck.txt)
    /\ Len(ck.chunks) < MaxChunks
    /\ LET nxt == ChunkLoopBody(ck.txt, ck.size, ck.overlap, ck.i, ck.chunks)
       IN  ck' = [ck EXCEPT !.i = nxt.i, !.chunks = nxt.chunks]

\* the loop condition fails: return chunks
ChunkReturn ==
    /\ ck.pc = "loop"
    /\ ~(ck.i < Len(ck.txt))
    /\ ck' = [ck EXCEPT !.pc = "done"]

----------------------------------------------------------------------------
(* Retrieval assembler: retrieve_context *)

Budget     == 6000   \* budget = 6000
SnippetCap == 800    \* snippet = doc[:800]
MinKeep    == 3      \* joined[:max(3, top_k)]

MaxDocs == 3   \* most entries of the docs collection in SpecRetrieve
MaxMem  == 2   \* most entries of the memories collection in SpecRetrieve
MaxTopK == 3   \* largest top_k in SpecRetrieve

\* Lengths of the stored fields a hit is rendered from.  docs records carry
\* tag "doc" and a path; memories carry tag "chat" and source "ask"/"gui".
DocTextLens == {300, 1000}
DocPathLens == {40, 2400}
DocKinds == [doc : DocTextLens, tag : {3}, src : DocPathLens]
MemKinds == [doc : DocTextLens, tag : {4}, src : {3}]

\* coll.query(query_embeddings=[qvec], n_results=top_k): the collection's
\* entries in rank order for the query, at most n_results of them.
Query(ranked, n_results) == SubSeq(ranked, 1, Min(n_results, Len(ranked)))

\* len(f"[{tag}] {snippet}\n(src: {src})") with snippet = doc[:800]
SnippetLen(hit) == 1 + hit.tag + 2 + Min(hit.doc, SnippetCap) + 7 + hit.src + 1

\* contexts with the memories hits put before the docs hits
ContextsMemoriesFirst(docsRanked, memRanked, top_k) ==
    LET d == Query(docsRanked, top_k)
        m == Query(memRanked, top_k)
    IN  [k \in 1..(Len(d) + Len(m)) |->
            IF k <= Len(m)
            THEN [pos |-> k, coll |-> "mem",  len |-> SnippetLen(m[k])]
            ELSE [pos |-> k, coll |-> "docs", len |-> SnippetLen(d[k - Len(m)])]]

\* contexts: docs hits in rank order, then memories hits in rank order.
\* A snippet is its position in contexts, its collection and its length.
Contexts(docsRanked, memRanked, top_k) ==
    LET d == Query(docsRanked, top_k)
        m == Query(memRanked, top_k)
    IN  [k \in 1..(Len(d) + Len(m)) |->
            IF k <= Len(d)
            THEN [pos |-> k, coll |-> "docs", len |-> SnippetLen(d[k])]
            ELSE [pos |-> k, coll |-> "mem",  len |-> SnippetLen(m[k - Len(d)])]]

\* the budget test made before the snippet is counted
FitsBeforeAdding(used, c) == used <= Budget

\* if used + len(c) <= budget
Fits(used, c) == used + c.len <= Budget

\* accumulation that ends at the first snippet that does not fit
RECURSIVE AccumulateUntilFull(_, _, _, _)
AccumulateUntilFull(contexts, k, joined, used) ==
    IF k > Len(contexts) THEN joined
    ELSE IF used + contexts[k].len <= Budget
         THEN AccumulateUntilFull(contexts, k + 1, Append(joined, contexts[k]),
                                  used + contexts[k].len)
         ELSE joined

\* for c in contexts: if used + len(c) <= budget: joined.append(c); used += len(c)
RECURSIVE Accumulate(_, _, _, _)
Accumulate(contexts, k, joined, used) ==
    IF k > Len(contexts) THEN joined
    ELSE IF Fits(used, contexts[k])
         THEN Accumulate(contexts, k + 1, Append(joined, contexts[k]), used + contexts[k].len)
         ELSE Accumulate(contexts, k + 1, joined, used)

\* min in place of max
ResultCapMin(top_k) == Min(MinKeep, top_k)

\* max(3, top_k)
ResultCap(top_k) == Max(MinKeep, top_k)

\* return joined[:max(3, top_k)]
retrieve_context(docsRanked, memRanked, top_k) ==
    PySlice(Accumulate(Contexts(docsRanked, memRanked, top_k), 1, <<>>, 0),
            0, ResultCap(top_k))

InitRetrieve ==
    /\ \E d \in SeqsUpTo(DocKinds, MaxDocs), m \in SeqsUpTo(MemKinds, MaxMem),
          k \in 1..MaxTopK :
          rc = [IdleRc EXCEPT !.pc = "call", !.docsRanked = d, !.memRanked = m,
                              !.top_k = k]
    /\ ck = IdleCk
    /\ cf = IdleCf
    /\ mtime = <<>>
    /\ present = {}
    /\ fs = IdleFs
    /\ docs = <<>>
    /\ ing = IdleIng
    /\ runs = <<>>
    /\ calls = 0
    /\ fsOps = 0
    /\ strictIds = TRUE
    /\ sd = IdleSd
    /\ jn = IdleJn
    /\ w = IdleW
    /\ sh = IdleSh
    /\ pn = IdlePn
    /\ lc = IdleLc

Retrieve ==
    /\ rc.pc = "call"
    /\ LET ctx == Contexts(rc.docsRanked, rc.memRanked, rc.top_k)
       IN  rc' = [rc EXCEPT !.pc = "done",
                            !.contexts = ctx,
                            !.joined = Accumulate(ctx, 1, <<>>, 0),
                            !.result = retrieve_context(rc.docsRanked, rc.memRanked, rc.top_k)]

----------------------------------------------------------------------------
(* Paths, the extension allow-list and the ignore globs *)

\* A path is its directory components, the stem of its file name and the
\* file name's last suffix: "data/x/a.txt" is Path(<<"data", "x">>, "a", ".txt").
Path(dir, stem, ext) == [dir |-> dir, stem |-> stem, ext |-> ext]

\* Path.name
BaseName(p) == <<p.stem, p.ext>>

\* str.lower() on the suffixes in use
LowerExt(e) == IF e = ".TXT" THEN ".txt" ELSE IF e = ".MD" THEN ".md" ELSE e

\* Config.allowed_exts
allowed_exts == {".txt", ".md", ".rst", ".py", ".js", ".ts", ".json", ".yaml", ".yml",
                 ".toml", ".ini", ".cfg", ".css", ".html", ".sql", ".env",
                 ".chaos", ".vas"}

\* Config.ignore_globs: "**/D/**" for the directories, "**/*E" for the suffixes
IgnoredDirs == {".git", "__pycache__", ".venv", "node_modules"}
IgnoredExts == {".lock", ".log"}

\* any(fnmatch(path.as_posix(), pat) for pat in patterns).  fnmatch's "*"
\* also matches "/", so "**/D/**" matches a string containing "/D/" and
\* "**/*E" one that ends with E after some "/".
within_any_glob(p) ==
    \/ \E j \in 2..Len(p.dir) : p.dir[j] \in IgnoredDirs
    \/ Len(p.dir) >= 1 /\ p.ext \in IgnoredExts

\* p.suffix.lower() in cfg.allowed_exts
AllowedExt(p) == LowerExt(p.ext) \in allowed_exts

\* the filter both ingest_path (directory case) and scan_dupes apply
Eligible(p) == ~within_any_glob(p) /\ AllowedExt(p)

\* the subsequence of s made of its elements that are in keepSet
RECURSIVE SelectSeqBy(_, _)
SelectSeqBy(s, keepSet) ==
    IF s = <<>> THEN <<>>
    ELSE IF s[1] \in keepSet THEN <<s[1]>> \o SelectSeqBy(Tail(s), keepSet)
         ELSE SelectSeqBy(Tail(s), keepSet)

----------------------------------------------------------------------------
(* Duplicate scanner (file-name groups) and consolidation planner *)

MaxTime == 3    \* modification times are drawn from 1..MaxTime

\* The files under the data root that consolidation looks at, in the order
\* Path(cfg.data_dir).rglob("*") enumerates them.
CEnum == << Path(<<"data", "x">>, "a", ".txt"),
            Path(<<"data", "y">>, "a", ".txt"),
            Path(<<"data", "z">>, "a", ".txt"),
            Path(<<"data", "x">>, "b", ".md"),
            Path(<<"data", "y">>, "b", ".md") >>
CPaths == Range(CEnum)

Strategies == {"newest", "oldest", "keep_first"}

\* name_to_paths.setdefault(p.name, []).append(str(p)) over the eligible
\* files in enumeration order; then the groups with at least 2 members, in
\* the order their names were first seen.
NameToPaths(enum, name) == SelectSeqBy(enum, {p \in Range(enum) : BaseName(p) = name})

RECURSIVE FirstSeenNames(_, _)
FirstSeenNames(enum, seen) ==
    IF enum = <<>> THEN <<>>
    ELSE IF BaseName(enum[1]) \in seen THEN FirstSeenNames(Tail(enum), seen)
         ELSE <<BaseName(enum[1])>> \o FirstSeenNames(Tail(enum), seen \cup {BaseName(enum[1])})

FilenameDupes(enumAll, existing) ==
    LET enum  == SelectSeqBy(enumAll, {p \in Range(enumAll) : p \in existing /\ Eligible(p)})
        names == FirstSeenNames(enum, {})
        multi == SelectSeqBy(names, {n \in Range(names) : Len(NameToPaths(enum, n)) >= 2})
    IN  [k \in 1..Len(multi) |-> [name |-> multi[k], paths |-> NameToPaths(enum, multi[k])]]

\* an insertion that puts an element before the elements of equal key
RECURSIVE InsertBeforeEqual(_, _, _)
InsertBeforeEqual(sorted, x, mt) ==
    IF sorted = <<>> THEN <<x>>
    ELSE IF mt[sorted[1]] < mt[x]
         THEN <<sorted[1]>> \o InsertBeforeEqual(Tail(sorted), x, mt)
         ELSE <<x>> \o sorted

\* list.sort(key=lambda x: x[1]) is stable: an element goes after every
\* element whose key is not larger.
RECURSIVE InsertByMtime(_, _, _)
InsertByMtime(sorted, x, mt) ==
    IF sorted = <<>> THEN <<x>>
    ELSE IF mt[sorted[1]] <= mt[x]
         THEN <<sorted[1]>> \o InsertByMtime(Tail(sorted), x, mt)
         ELSE <<x>> \o sorted

\* times = [(p, getmtime(p)) for p in paths]; times.sort(key=lambda x: x[1])
RECURSIVE SortByMtime(_, _)
SortByMtime(paths, mt) ==
    IF paths = <<>> THEN <<>>
    ELSE InsertByMtime(SortByMtime(SubSeq(paths, 1, Len(paths) - 1), mt),
                       paths[Len(paths)], mt)

\* newest and oldest exchanged
KeepSwapped(strategy, paths, mt) ==
    LET times == SortByMtime(paths, mt)
    IN  IF strategy = "newest" THEN times[1]
        ELSE IF strategy = "oldest" THEN times[Len(times)]
        ELSE paths[1]

\* keep = times[-1][0] | times[0][0] | paths[0]
Keep(strategy, paths, mt) ==
    LET times == SortByMtime(paths, mt)
    IN  IF strategy = "newest" THEN times[Len(times)]
        ELSE IF strategy = "oldest" THEN times[1]
        ELSE paths[1]

\* the kept path left in the removal list
ToRemoveAll(paths, keep) == paths

\* to_remove = [p for p in paths if p != keep]
ToRemove(paths, keep) == SelectSeqBy(paths, Range(paths) \ {keep})

\* actions.append((name, keep, to_remove)) for every group
Plan(strategy, filename_dupes, mt) ==
    [g \in 1..Len(filename_dupes) |->
        LET paths == filename_dupes[g].paths
            keep  == Keep(strategy, paths, mt)
        IN  [name |-> filename_dupes[g].name, keep |-> keep,
             to_remove |-> ToRemove(paths, keep)]]

\* The cursor of the two nested execution loops, moved to the next path to
\* ask about; g = Len(actions) + 1 when both loops are over.
RECURSIVE SeekFrom(_, _, _)
SeekFrom(actions, g, r) ==
    IF g > Len(actions) THEN [g |-> g, r |-> 1]
    ELSE IF r <= Len(actions[g].to_remove) THEN [g |-> g, r |-> r]
         ELSE SeekFrom(actions, g + 1, 1)

InitConsolidate ==
    /\ present \in SUBSET CPaths
    /\ mtime \in [present -> 1..MaxTime]
    /\ \E strategy \in Strategies, only_list \in BOOLEAN :
          cf = [IdleCf EXCEPT !.pc = "call", !.strategy = strategy,
                              !.only_list = only_list,
                              !.filename_dupes = FilenameDupes(CEnum, present),
                              !.before = present]
    /\ ck = IdleCk
    /\ rc = IdleRc
    /\ fs = IdleFs
    /\ docs = <<>>
    /\ ing = IdleIng
    /\ runs = <<>>
    /\ calls = 0
    /\ fsOps = 0
    /\ strictIds = TRUE
    /\ sd = IdleSd
    /\ jn = IdleJn
    /\ w = IdleW
    /\ sh = IdleSh
    /\ pn = IdlePn
    /\ lc = IdleLc

\* the only_list test left out: the execution loops always run
AfterPlanAlwaysExecutes(only_list, actions, at) ==
    IF at.g > Len(actions) THEN "done" ELSE "exec"

\* if only_list: the plan is printed and the call returns; otherwise the
\* execution loops run, and they are over at once when nothing is to remove
AfterPlan(only_list, actions, at) ==
    IF only_list \/ at.g > Len(actions) THEN "done" ELSE "exec"

\* consolidate_files up to the end of the planning loop: with only_list the
\* plan is printed and the call returns, otherwise execution starts.
ConsolidatePlan ==
    /\ cf.pc = "call"
    /\ LET actions == Plan(cf.strategy, cf.filename_dupes, mtime)
           at      == SeekFrom(actions, 1, 1)
       IN  cf' = [cf EXCEPT !.actions = actions, !.g = at.g, !.r = at.r,
                            !.pc = AfterPlan(cf.only_list, actions, at)]
    /\ UNCHANGED <<mtime, present>>

AskedPath == cf.actions[cf.g].to_remove[cf.r]

\* the cursor after the path just asked about
Advance(answer) ==
    LET at == SeekFrom(cf.actions, cf.g, cf.r + 1)
    IN  [cf EXCEPT !.asked = Append(@, [path |-> AskedPath, answer |-> answer]),
                   !.g = at.g, !.r = at.r,
                   !.pc = IF at.g > Len(cf.actions) THEN "done" ELSE "exec"]

\* Confirm.ask(...) answers no: nothing is removed
ConsolidateDecline ==
    /\ cf.pc = "exec"
    /\ cf' = Advance(FALSE)
    /\ UNCHANGED <<mtime, present>>

\* Confirm.ask(...) answers yes and os.remove(p) succeeds
ConsolidateDelete ==
    /\ cf.pc = "exec"
    /\ AskedPath \in present
    /\ cf' = Advance(TRUE)
    /\ present' = present \ {AskedPath}
    /\ UNCHANGED mtime

\* Confirm.ask(...) answers yes and os.remove(p) raises: logged, loop goes on
ConsolidateDeleteFails ==
    /\ cf.pc = "exec"
    /\ cf' = Advance(TRUE)
    /\ UNCHANGED <<mtime, present>>

----------------------------------------------------------------------------
(* Ingestion pipeline: ingest_path against a file system that other         *)
(* processes change while a batch is being built                            *)

MaxEvents == 3   \* ingest_path calls plus file-system changes in one behaviour

\* Config.chunk_overlap and Config.chunk_chars: a small configuration with
\* overlap < size, so that texts of a few characters span several chunks
cfg_chunk_overlap == 1
cfg_chunk_chars   == cfg_chunk_overlap + 2

DataDir == Path(<<>>, "data", "")          \* the data root, a directory
FileA   == Path(<<"data">>, "a", ".txt")
FileB   == Path(<<"data", "sub">>, "b", ".TXT")
FileG   == Path(<<"data", ".git">>, "c", ".txt")   \* under an ignore glob
FileD   == Path(<<"data">>, "d", ".bin")           \* extension not allowed

\* the files, in the order DataDir.rglob("*") enumerates them
IEnum  == <<FileA, FileB, FileG, FileD>>
IPaths == Range(IEnum)

\* the paths ingest_path is called with
Roots == {DataDir, FileA, FileG, FileD}

\* the files other processes write, remove or protect in this model
Mutable == {FileA, FileB}

\* file contents: blank, one chunk, several chunks
Contents == { <<" ", "\n">>, <<"a", "b">>, <<"a", "b", " ", " ", "b", "a", "b">> }

\* hashlib.sha1(b).hexdigest(), collision-free
sha1_bytes(b) == <<"sha1", b>>

\* a chunk id salted with the number of the ingest call
ChunkIdSalted(file_hash, i) == <<file_hash, i, calls>>

\* cid = f"{file_hash}:{i}"
ChunkId(file_hash, i) == <<file_hash, i>>

\* embedder.embed_texts: one vector per text, a function of the text
Embed(text) == <<"vec", text>>

\* the entries ingest_path appends to docs_ids / docs / metas for one file
\* (the "mtime" metadata field, which no operation reads back, is left out)
FileEntries(p, txt, file_hash) ==
    LET chunks == chunk_text(txt, cfg_chunk_chars, cfg_chunk_overlap)
    IN  [n \in 1..Len(chunks) |->
            [id |-> ChunkId(file_hash, n - 1), document |-> chunks[n],
             path |-> p, file_sha1 |-> file_hash, chunk_index |-> n - 1,
             tag |-> "doc"]]

\* the stored record of an entry
Stored(e) == [document |-> e.document, embedding |-> Embed(e.document),
              path |-> e.path, file_sha1 |-> e.file_sha1,
              chunk_index |-> e.chunk_index, tag |-> e.tag]

\* an upsert that would also drop the other records of the batch's paths
UpsertReplacingPath(coll, batch) ==
    LET ids == {batch[n].id : n \in 1..Len(batch)}
        paths == {batch[n].path : n \in 1..Len(batch)}
        kept == {id \in DOMAIN coll : coll[id].path \notin paths}
        LastOf(id) == CHOOSE n \in 1..Len(batch) :
                          /\ batch[n].id = id
                          /\ \A m \in (n + 1)..Len(batch) : batch[m].id # id
    IN  [id \in kept \cup ids |->
            IF id \in ids THEN Stored(batch[LastOf(id)]) ELSE coll[id]]

\* collection.upsert: every id of the batch is stored, the last entry of an
\* id winning; the other ids keep their record
Upsert(coll, batch) ==
    LET ids == {batch[n].id : n \in 1..Len(batch)}
        LastOf(id) == CHOOSE n \in 1..Len(batch) :
                          /\ batch[n].id = id
                          /\ \A m \in (n + 1)..Len(batch) : batch[m].id # id
    IN  [id \in (DOMAIN coll) \cup ids |->
            IF id \in ids THEN Stored(batch[LastOf(id)]) ELSE coll[id]]

HasRepeatedId(batch) ==
    \E m, n \in 1..Len(batch) : m # n /\ batch[m].id = batch[n].id

IsFile(p) == p \in IPaths /\ fs[p].state # "absent"

\* files = [path] if path.is_file() else the eligible files under path
FilesOf(root) ==
    IF IsFile(root) THEN <<root>>
    ELSE IF root = DataDir
         THEN SelectSeqBy(IEnum, {p \in IPaths : IsFile(p) /\ ~within_any_glob(p) /\ AllowedExt(p)})
         ELSE <<>>

\* the summary of a finished call
Finished(outcome, call, coll) ==
    [root |-> call.root, outcome |-> outcome,
     ids |-> {call.batch[n].id : n \in 1..Len(call.batch)},
     count |-> Cardinality(DOMAIN coll), v0 |-> call.v0, v1 |-> fsOps,
     expected |-> UNION {
         {e.id : e \in Range(FileEntries(p, fs[p].content, sha1_bytes(fs[p].content)))} :
             p \in {q \in Range(call.files) :
                       /\ q \notin call.touched
                       /\ fs[q].state = "ok"
                       /\ Strip(fs[q].content) # <<>>} }]

\* the files when the engine starts
InitialFs ==
    [p \in IPaths |->
        [state |-> "ok",
         content |-> IF p = FileA THEN <<"a", "b", " ", " ", "b", "a", "b">>
                     ELSE <<"a", "b">>]]

Init ==
    /\ fs = InitialFs
    /\ docs = <<>>
    /\ ing = IdleIng
    /\ runs = <<>>
    /\ calls = 0
    /\ fsOps = 0
    /\ strictIds \in BOOLEAN
    /\ ck = IdleCk
    /\ rc = IdleRc
    /\ cf = IdleCf
    /\ mtime = <<>>
    /\ present = {}
    /\ sd = IdleSd
    /\ jn = IdleJn
    /\ w = IdleW
    /\ sh = IdleSh
    /\ pn = IdlePn
    /\ lc = IdleLc

\* what is kept of the call before the last one
Earlier(summary) == [summary EXCEPT !.expected = {}]

Return(outcome, call, coll) ==
    /\ runs' = IF runs = <<>> THEN <<Finished(outcome, call, coll)>>
                ELSE <<Earlier(runs[Len(runs)]), Finished(outcome, call, coll)>>
    /\ ing' = IdleIng

\* ingest_path, lines 389-401: the file set; "No files matched" returns
IngestCall(root) ==
    /\ ing.pc = "idle"
    /\ calls + fsOps < MaxEvents
    /\ FilesOf(root) # <<>>
    /\ ing' = [IdleIng EXCEPT !.pc = "read", !.root = root, !.files = FilesOf(root),
                              !.v0 = fsOps]
    /\ calls' = calls + 1
    /\ UNCHANGED <<fs, docs, runs, fsOps, strictIds>>

IngestNoFiles(root) ==
    /\ ing.pc = "idle"
    /\ calls + fsOps < MaxEvents
    /\ FilesOf(root) = <<>>
    /\ Return("no_files", [IdleIng EXCEPT !.root = root, !.v0 = fsOps], docs)
    /\ calls' = calls + 1
    /\ UNCHANGED <<fs, docs, fsOps, strictIds>>

NextFile == IF ing.k + 1 > Len(ing.files) THEN "flush" ELSE "read"

\* read_text_file(p) raises: "Failed to read", continue
IngestReadFails ==
    /\ ing.pc = "read"
    /\ fs[ing.files[ing.k]].state # "ok"
    /\ ing' = [ing EXCEPT !.k = @ + 1, !.pc = NextFile]
    /\ UNCHANGED <<fs, docs, runs, calls, fsOps, strictIds>>

\* if not txt.strip(): continue
IngestReadBlank ==
    /\ ing.pc = "read"
    /\ fs[ing.files[ing.k]].state = "ok"
    /\ Strip(fs[ing.files[ing.k]].content) = <<>>
    /\ ing' = [ing EXCEPT !.k = @ + 1, !.pc = NextFile]
    /\ UNCHANGED <<fs, docs, runs, calls, fsOps, strictIds>>

\* txt = read_text_file(p), not blank
IngestReadText ==
    /\ ing.pc = "read"
    /\ fs[ing.files[ing.k]].state = "ok"
    /\ Strip(fs[ing.files[ing.k]].content) # <<>>
    /\ ing' = [ing EXCEPT !.txt = fs[ing.files[ing.k]].content, !.pc = "hash"]
    /\ UNCHANGED <<fs, docs, runs, calls, fsOps, strictIds>>

\* file_hash = sha1_file(p) (or os.path.getmtime(p)) raises outside the
\* try block: the exception leaves ingest_path
IngestHashFails ==
    /\ ing.pc = "hash"
    /\ fs[ing.files[ing.k]].state # "ok"
    /\ Return("file_error", ing, docs)
    /\ UNCHANGED <<fs, docs, calls, fsOps, strictIds>>

\* chunks = chunk_text(txt, ...); file_hash = sha1_file(p); the entries of
\* the file are appended to the batch
IngestHashAppend ==
    /\ ing.pc = "hash"
    /\ fs[ing.files[ing.k]].state = "ok"
    /\ LET p == ing.files[ing.k]
           file_hash == sha1_bytes(fs[p].content)
       IN  ing' = [ing EXCEPT !.batch = @ \o FileEntries(p, ing.txt, file_hash),
                              !.txt = <<>>, !.k = @ + 1, !.pc = NextFile]
    /\ UNCHANGED <<fs, docs, runs, calls, fsOps, strictIds>>

\* if not docs: "Nothing to add", return
IngestNothing ==
    /\ ing.pc = "flush"
    /\ ing.batch = <<>>
    /\ Return("nothing", ing, docs)
    /\ UNCHANGED <<fs, docs, calls, fsOps, strictIds>>

\* embedder.embed_texts(docs) or the store raises: backend unavailable
IngestBackendDown ==
    /\ ing.pc = "flush"
    /\ ing.batch # <<>>
    /\ Return("backend_error", ing, docs)
    /\ UNCHANGED <<fs, docs, calls, fsOps, strictIds>>

\* bank.docs.upsert raises on a batch with a repeated id
IngestUpsertRejected ==
    /\ ing.pc = "flush"
    /\ ing.batch # <<>>
    /\ strictIds /\ HasRepeatedId(ing.batch)
    /\ Return("duplicate_ids", ing, docs)
    /\ UNCHANGED <<fs, docs, calls, fsOps, strictIds>>

\* vecs = embedder.embed_texts(docs); bank.docs.upsert(...)
\* the three collections of the bank after the upsert of line 432, which
\* goes to bank.docs
BankAfterUpsertIntoMemories(bank, batch) ==
    [bank EXCEPT !.memories = Upsert(@, batch)]

BankAfterUpsert(bank, batch) ==
    [bank EXCEPT !.docs = Upsert(@, batch)]

IngestUpsert ==
    /\ ing.pc = "flush"
    /\ ing.batch # <<>>
    /\ ~(strictIds /\ HasRepeatedId(ing.batch))
    /\ LET bank == BankAfterUpsert([docs |-> docs, memories |-> jn.mem,
                                    state_notes |-> jn.state], ing.batch)
       IN  /\ docs' = bank.docs
           /\ jn' = [jn EXCEPT !.mem = bank.memories, !.state = bank.state_notes]
           /\ Return("upserted", ing, bank.docs)
    /\ UNCHANGED <<fs, calls, fsOps, strictIds>>

\* another process changes the file system
FsChange(p, state, content) ==
    /\ calls + fsOps < MaxEvents
    /\ fs' = [fs EXCEPT ![p] = [state |-> state, content |-> content]]
    /\ fsOps' = fsOps + 1
    /\ ing' = IF ing.pc = "idle" THEN ing ELSE [ing EXCEPT !.touched = @ \cup {p}]
    /\ UNCHANGED <<docs, runs, calls, strictIds>>

FsWrite(p, content) ==
    /\ fs[p].state = "ok"
    /\ content # fs[p].content
    /\ FsChange(p, "ok", content)

FsRemove(p) ==
    /\ fs[p].state # "absent"
    /\ FsChange(p, "absent", <<>>)

FsDeny(p) ==
    /\ fs[p].state = "ok"
    /\ FsChange(p, "unreadable", fs[p].content)

----------------------------------------------------------------------------
(* Duplicate scanner: scan_dupes over a tree of files, the second pass a    *)
(* file at a time                                                           *)

\* The files under the data root, in the order Path(cfg.data_dir).rglob("*")
\* enumerates them: two files of one name, a third one under an ignored
\* directory, two files of other names and a file whose extension is not
\* allowed.
SEnum == << Path(<<"data", "x">>, "a", ".txt"),
            Path(<<"data", "y">>, "a", ".txt"),
            Path(<<"data", "y">>, "b", ".md"),
            Path(<<"data", "z">>, "c", ".md"),
            Path(<<"data", ".git">>, "a", ".txt"),
            Path(<<"data", "x">>, "d", ".bin") >>
SPaths == Range(SEnum)

\* what a file of the tree can be: missing, a file sha1_file cannot open, or
\* a readable file with one of two contents
SFileStates == { [state |-> "absent", content |-> <<>>],
                 [state |-> "unreadable", content |-> <<>>],
                 [state |-> "ok", content |-> <<"a">>],
                 [state |-> "ok", content |-> <<"b">>] }

\* p.is_file() and p.suffix.lower() in cfg.allowed_exts
\*             and not within_any_glob(p, cfg.ignore_globs)
ScanCandidate(p) == fs[p].state # "absent" /\ AllowedExt(p) /\ ~within_any_glob(p)

\* hash_to_paths.setdefault(h, []).append(str(p)): groups in the order their
\* key was first seen
SetDefaultAppend(groups, key, p) ==
    IF \E n \in 1..Len(groups) : groups[n].key = key
    THEN [n \in 1..Len(groups) |->
             IF groups[n].key = key
             THEN [groups[n] EXCEPT !.paths = Append(@, p)]
             ELSE groups[n]]
    ELSE Append(groups, [key |-> key, paths |-> <<p>>])

\* every group reported, whatever its size
AtLeastOne(groups) == groups

\* {k: v for k, v in hash_to_paths.items() if len(v) >= 2}
AtLeastTwo(groups) == SelectSeq(groups, LAMBDA g : Len(g.paths) >= 2)

InitScan ==
    /\ fs \in [SPaths -> SFileStates]
    /\ sd = [IdleSd EXCEPT !.pc = "call"]
    /\ ck = IdleCk
    /\ rc = IdleRc
    /\ cf = IdleCf
    /\ mtime = <<>>
    /\ present = {}
    /\ docs = <<>>
    /\ ing = IdleIng
    /\ runs = <<>>
    /\ calls = 0
    /\ fsOps = 0
    /\ strictIds = TRUE
    /\ jn = IdleJn
    /\ w = IdleW
    /\ sh = IdleSh
    /\ pn = IdlePn
    /\ lc = IdleLc

\* first pass: name_to_paths over the candidates, then filename_dupes
ScanNames ==
    /\ sd.pc = "call"
    /\ sd' = [sd EXCEPT !.filename_dupes =
                            FilenameDupes(SEnum, {p \in SPaths : fs[p].state # "absent"}),
                        !.pc = "hash", !.k = 1]

\* second pass, a path that is not a candidate
ScanSkip ==
    /\ sd.pc = "hash"
    /\ sd.k <= Len(SEnum)
    /\ ~ScanCandidate(SEnum[sd.k])
    /\ sd' = [sd EXCEPT !.k = @ + 1]

\* second pass: h = sha1_file(p); hash_to_paths.setdefault(h, []).append(str(p))
ScanHash ==
    /\ sd.pc = "hash"
    /\ sd.k <= Len(SEnum)
    /\ ScanCandidate(SEnum[sd.k])
    /\ fs[SEnum[sd.k]].state = "ok"
    /\ sd' = [sd EXCEPT !.hash_to_paths =
                            SetDefaultAppend(@, sha1_bytes(fs[SEnum[sd.k]].content),
                                             SEnum[sd.k]),
                        !.k = @ + 1]

\* second pass: sha1_file(p) raises; except Exception: pass
ScanHashFails ==
    /\ sd.pc = "hash"
    /\ sd.k <= Len(SEnum)
    /\ ScanCandidate(SEnum[sd.k])
    /\ fs[SEnum[sd.k]].state # "ok"
    /\ sd' = [sd EXCEPT !.k = @ + 1]

\* exact_dupes is filtered out of hash_to_paths and the report is returned
ScanReturn ==
    /\ sd.pc = "hash"
    /\ sd.k > Len(SEnum)
    /\ sd' = [sd EXCEPT !.exact_dupes = AtLeastTwo(sd.hash_to_paths), !.pc = "done"]

----------------------------------------------------------------------------
(* Journal: save_memory and save_state_note against the wall clock          *)

MaxSecond == 1   \* the clock runs from second 0 to second MaxSecond
MaxSaves  == 3   \* save calls in one behaviour

\* dt.datetime.now() has a sub-second part; two instants per second are
\* told apart here
SubSeconds == {0, 1}

JournalTexts == { <<"a">>, <<"a", "b">> }
Subtypes     == { <<"b">>, <<"c">> }

\* dt.datetime.now().isoformat(timespec="seconds"): the sub-second part of
\* the instant is dropped
now_iso(instant) == <<"iso", instant.sec>>

\* sha1_bytes(text.encode("utf-8")) + ":" + now_iso()
EntryId(salted, instant) == <<sha1_bytes(salted), ":", now_iso(instant)>>

\* collection.upsert(ids=[id], embeddings=[vec], metadatas=[meta], documents=[text])
UpsertOne(coll, id, text, meta) ==
    [i \in (DOMAIN coll) \cup {id} |->
        IF i = id THEN [document |-> text, embedding |-> Embed(text), meta |-> meta]
        ELSE coll[i]]

\* a call takes time: no two calls read the clock at the same instant
ClockMoved ==
    IF jn.saved = <<>> THEN TRUE ELSE jn.saved[Len(jn.saved)].at # jn.clock

\* what the log keeps of one save call
Saved(kind, text, id, before, after) ==
    [kind |-> kind, text |-> text, id |-> id, at |-> jn.clock,
     before |-> before, after |-> after]

InitJournal ==
    /\ jn = IdleJn
    /\ ck = IdleCk
    /\ rc = IdleRc
    /\ cf = IdleCf
    /\ mtime = <<>>
    /\ present = {}
    /\ fs = IdleFs
    /\ docs = <<>>
    /\ ing = IdleIng
    /\ runs = <<>>
    /\ calls = 0
    /\ fsOps = 0
    /\ strictIds = TRUE
    /\ sd = IdleSd
    /\ w = IdleW
    /\ sh = IdleSh
    /\ pn = IdlePn
    /\ lc = IdleLc

\* time passes: to the next instant of the second, or to the next second
ClockTick ==
    /\ \/ /\ jn.clock.sub + 1 \in SubSeconds
          /\ jn' = [jn EXCEPT !.clock.sub = @ + 1]
       \/ /\ jn.clock.sec < MaxSecond
          /\ jn' = [jn EXCEPT !.clock = [sec |-> jn.clock.sec + 1, sub |-> 0]]

\* save_memory(bank, embedder, text) with the default tag and source
SaveMemory(text) ==
    /\ Len(jn.saved) < MaxSaves
    /\ ClockMoved
    /\ LET mid == EntryId(text, jn.clock)
           mem == UpsertOne(jn.mem, mid, text, [tag |-> "memory", source |-> "auto"])
       IN  jn' = [jn EXCEPT !.mem = mem,
                           !.saved = Append(@, Saved("memory", text, mid,
                                                     jn.mem, mem))]

\* save_state_note(bank, embedder, text, subtype)
SaveStateNote(text, subtype) ==
    /\ Len(jn.saved) < MaxSaves
    /\ ClockMoved
    /\ LET sid   == EntryId(text \o subtype, jn.clock)
           state == UpsertOne(jn.state, sid, text, [tag |-> "state", subtype |-> subtype])
       IN  jn' = [jn EXCEPT !.state = state,
                           !.saved = Append(@, Saved("state", text, sid,
                                                     jn.state, state))]

----------------------------------------------------------------------------
(* Change watcher: watch_path's observer thread dispatching file-system     *)
(* events to _Handler, which calls ingest_path on the same thread           *)

MaxEmits == 3   \* file-system events emitted in one behaviour

NotesDir == Path(<<"data">>, "notes", ".txt")   \* a directory named like a text file
GoneFile == Path(<<"data">>, "tmp", ".md")      \* created and removed before dispatch

\* the events the observed tree emits: kind, src_path and is_directory
WatchSources == { [kind |-> "modified", src_path |-> FileA, is_directory |-> FALSE],
                  [kind |-> "created", src_path |-> FileA, is_directory |-> FALSE],
                  [kind |-> "deleted", src_path |-> FileA, is_directory |-> FALSE],
                  [kind |-> "modified", src_path |-> FileG, is_directory |-> FALSE],
                  [kind |-> "created", src_path |-> FileD, is_directory |-> FALSE],
                  [kind |-> "created", src_path |-> GoneFile, is_directory |-> FALSE],
                  [kind |-> "modified", src_path |-> NotesDir, is_directory |-> TRUE] }

\* _maybe_ingest with the is_directory test left out
MaybeIngestsDirectories(event) ==
    /\ ~within_any_glob(event.src_path)
    /\ LowerExt(event.src_path.ext) \in allowed_exts

\* _maybe_ingest reaches its ingest_path call: none of the three early
\* returns is taken
MaybeIngests(event) ==
    /\ ~event.is_directory
    /\ ~within_any_glob(event.src_path)
    /\ LowerExt(event.src_path.ext) \in allowed_exts

\* FileSystemEventHandler.dispatch: the handler overrides on_modified and
\* on_created only, the other kinds go to the base class and do nothing
Handles(event) == event.kind \in {"created", "modified"} /\ MaybeIngests(event)

\* the observer thread after an exception left the handler: it goes on or it
\* ends, as the watchdog library of the build decides; the main thread
\* sleeps on either way
AfterHandlerRaised(watcher) ==
    [watcher EXCEPT !.observer = IF watcher.survives THEN "watching" ELSE "dead"]

\* watch_path with the WATCHDOG_OK test left out
AfterWatchCallNoGuard(watcher) ==
    [watcher EXCEPT !.observer = "watching", !.printed = <<"Watching">>]

\* watch_path, lines 461-468: without watchdog it prints and returns, else
\* it starts the observer and enters the sleep loop
AfterWatchCall(watcher) ==
    IF ~watcher.watchdog_ok
    THEN [watcher EXCEPT !.observer = "returned",
                         !.printed = <<"watchdog is not installed; cannot watch.">>]
    ELSE [watcher EXCEPT !.observer = "watching", !.printed = <<"Watching">>]

\* watch_path is about to be called; WATCHDOG_OK was set when the module was
\* imported
InitWatch ==
    /\ \E survives \in BOOLEAN, watchdog_ok \in BOOLEAN :
          w = [IdleW EXCEPT !.observer = "called", !.survives = survives,
                            !.watchdog_ok = watchdog_ok]
    /\ fs = InitialFs
    /\ docs = <<>>
    /\ ing = IdleIng
    /\ runs = <<>>
    /\ calls = 0
    /\ fsOps = 0
    /\ strictIds = TRUE
    /\ ck = IdleCk
    /\ rc = IdleRc
    /\ cf = IdleCf
    /\ mtime = <<>>
    /\ present = {}
    /\ sd = IdleSd
    /\ jn = IdleJn
    /\ sh = IdleSh
    /\ pn = IdlePn
    /\ lc = IdleLc

WatchCall ==
    /\ w.observer = "called"
    /\ w' = AfterWatchCall(w)
    /\ UNCHANGED <<fs, docs, ing, runs, calls, fsOps, strictIds>>

\* the emitter thread queues an event; more = TRUE when it belongs to the
\* burst of the event queued last (one save of an editor, several events)
WatchEmit(source, more) ==
    /\ w.observer \in {"watching", "dead"}
    /\ Len(w.queue) + Len(w.handled) < MaxEmits
    /\ more => (w.last = <<source.src_path>> /\ source.kind = "modified")
    /\ LET burst == IF more THEN w.bursts ELSE w.bursts + 1
       IN  w' = [w EXCEPT !.queue = Append(@, [kind |-> source.kind,
                                               src_path |-> source.src_path,
                                               is_directory |-> source.is_directory,
                                               burst |-> burst]),
                          !.bursts = burst,
                          !.last = <<source.src_path>>]
    /\ UNCHANGED <<fs, docs, ing, runs, calls, fsOps, strictIds>>

\* what the log keeps of a dispatched event
Dispatched(event, ingest) == [event |-> event, ingest |-> ingest]

\* the observer thread takes an event the handler returns from at once
WatchDispatchIgnored ==
    /\ w.observer = "watching"
    /\ ing.pc = "idle"
    /\ w.queue # <<>>
    /\ ~Handles(Head(w.queue))
    /\ w' = [w EXCEPT !.queue = Tail(@),
                      !.handled = Append(@, Dispatched(Head(w.queue), FALSE))]
    /\ UNCHANGED <<fs, docs, ing, runs, calls, fsOps, strictIds>>

\* the observer thread takes an event and the handler calls
\* ingest_path(cfg, bank, embedder, p) with the path of the event
WatchDispatchIngest ==
    /\ w.observer = "watching"
    /\ w.queue # <<>>
    /\ Handles(Head(w.queue))
    /\ IngestCall(Head(w.queue).src_path)
    /\ w' = [w EXCEPT !.queue = Tail(@),
                      !.handled = Append(@, Dispatched(Head(w.queue), TRUE))]

\* the same for a path that is no file any more: ingest_path finds no file,
\* prints "No files matched" and returns
WatchDispatchIngestGone ==
    /\ w.observer = "watching"
    /\ w.queue # <<>>
    /\ Handles(Head(w.queue))
    /\ IngestNoFiles(Head(w.queue).src_path)
    /\ w' = [w EXCEPT !.queue = Tail(@),
                      !.handled = Append(@, Dispatched(Head(w.queue), TRUE))]

\* the embedding or the store raises inside the handler: nothing catches it
\* in ingest_path, in _maybe_ingest or in on_modified / on_created
WatchIngestBackendDown ==
    /\ w.observer = "watching"
    /\ IngestBackendDown
    /\ w' = AfterHandlerRaised(w)

\* KeyboardInterrupt in the main thread: observer.stop(), observer.join()
WatchStop ==
    /\ w.observer \in {"watching", "dead"}
    /\ ing.pc = "idle"
    /\ w' = [w EXCEPT !.observer = "stopped"]
    /\ UNCHANGED <<fs, docs, ing, runs, calls, fsOps, strictIds>>

----------------------------------------------------------------------------
(* Configuration: load_config and the Config schema *)

\* A YAML value is its Python type after yaml.safe_load and its literal.
YamlInt(v)  == [t |-> "int", v |-> v]
YamlStr(v)  == [t |-> "str", v |-> v]
YamlList    == [t |-> "list", v |-> "[]"]

\* the fields of Config the model follows, with their declared type, and a
\* key that is no field of Config
ConfigFields == {"data_dir", "top_k", "chunk_chars"}
ConfigKeys   == ConfigFields \cup {"note"}
FieldType(k) == IF k = "data_dir" THEN "str" ELSE "int"

\* Config(): the declared defaults
ConfigDefaults ==
    [data_dir |-> YamlStr("./data"), top_k |-> YamlInt("5"),
     chunk_chars |-> YamlInt("1200")]

YamlValues == {YamlInt("7"), YamlStr("x"), YamlList}

\* the YAML documents a config file can hold: nothing, a scalar, a sequence
\* or a mapping of some of the keys
YamlMappings == UNION {[keys -> YamlValues] : keys \in SUBSET ConfigKeys}
YamlDocuments ==
    {[t |-> "empty"], [t |-> "scalar", v |-> "0"], [t |-> "scalar", v |-> "abc"],
     [t |-> "sequence"]}
    \cup {[t |-> "mapping", items |-> m] : m \in YamlMappings}

\* yaml.safe_load: an empty document is None, a scalar is an int or a str,
\* a sequence a list, a mapping a dict
safe_load(document) ==
    CASE document.t = "empty"    -> [t |-> "NoneType"]
      [] document.t = "scalar"   -> IF document.v = "0" THEN YamlInt("0")
                                    ELSE YamlStr(document.v)
      [] document.t = "sequence" -> YamlList
      [] document.t = "mapping"  -> [t |-> "dict", items |-> document.items]

Raised(exception, message) == [raised |-> exception, message |-> message]
Returned(config) == [returned |-> config]

\* Config(**data): ** needs a mapping; a key that is no field is ignored; a
\* value of another type than the field's fails validation
ConfigFrom(data) ==
    IF data.t # "dict"
    THEN Raised("TypeError", "argument after ** must be a mapping")
    ELSE IF \E k \in DOMAIN data.items \cap ConfigFields :
                data.items[k].t # FieldType(k)
    THEN Raised("ValidationError", "validation error for Config")
    ELSE Returned([k \in ConfigFields |->
                      IF k \in DOMAIN data.items THEN data.items[k]
                      ELSE ConfigDefaults[k]])

\* yaml.safe_dump(cfg.model_dump()): the mapping of every field
safe_dump(config) == [t |-> "mapping", items |-> config]

\* load_config is about to be called; the file is absent or holds a document
InitConfig ==
    /\ \E file \in {<<>>} \cup {<<d>> : d \in YamlDocuments} :
          lc = [IdleLc EXCEPT !.pc = "call", !.file = file]
    /\ ck = IdleCk
    /\ rc = IdleRc
    /\ cf = IdleCf
    /\ mtime = <<>>
    /\ present = {}
    /\ fs = IdleFs
    /\ docs = <<>>
    /\ ing = IdleIng
    /\ runs = <<>>
    /\ calls = 0
    /\ fsOps = 0
    /\ strictIds = TRUE
    /\ sd = IdleSd
    /\ jn = IdleJn
    /\ w = IdleW
    /\ sh = IdleSh
    /\ pn = IdlePn

\* load_config, lines 139-141: the file exists
LoadConfigExisting ==
    /\ lc.pc = "call"
    /\ lc.file # <<>>
    /\ lc' = [lc EXCEPT !.pc = "done", !.result = ConfigFrom(safe_load(lc.file[1]))]

\* load_config, lines 142-144: no file, the defaults are written and returned
LoadConfigMissing ==
    /\ lc.pc = "call"
    /\ lc.file = <<>>
    /\ lc' = [lc EXCEPT !.pc = "done", !.result = Returned(ConfigDefaults),
                        !.file = <<safe_dump(ConfigDefaults)>>, !.written = TRUE]

----------------------------------------------------------------------------
(* Embedding model names: parse_embed_model_name and Embedder._parse_model_name *)

MaxNameLen == 4   \* most pieces of a model name in SpecParse

\* A model name is a sequence of pieces: the word fastembed in one of two
\* spellings, the colon, a blank, a letter of a model's name.  No operation
\* of the two parsers cuts inside the word.
NamePieces == {"fastembed", "FastEmbed", ":", " ", "x"}

\* FASTEMBED_PREFIX = "fastembed:"
FASTEMBED_PREFIX == <<"fastembed", ":">>

\* str.lower()
LowerName(name) ==
    [n \in 1..Len(name) |-> IF name[n] = "FastEmbed" THEN "fastembed" ELSE name[n]]

\* str.startswith(prefix)
StartsWith(name, prefix) ==
    Len(name) >= Len(prefix) /\ SubSeq(name, 1, Len(prefix)) = prefix

\* the index of the first colon, 0 if there is none
RECURSIVE FirstColon(_, _)
FirstColon(name, n) ==
    IF n > Len(name) THEN 0
    ELSE IF name[n] = ":" THEN n ELSE FirstColon(name, n + 1)

Parsed(provider, name) == [provider |-> provider, name |-> name]

\* parse_embed_model_name, lines 29-37
parse_embed_model_name(model_name) ==
    LET raw    == Strip(model_name)
        lower  == LowerName(raw)
        target == Strip(PySlice(raw, Len(FASTEMBED_PREFIX), Len(raw)))
    IN  IF StartsWith(lower, FASTEMBED_PREFIX)
        THEN IF target = <<>>
             THEN Raised("ValueError", "fastembed prefix requires a model name")
             ELSE Parsed("fastembed", target)
        ELSE Parsed("sentence-transformers", raw)

\* Embedder._parse_model_name, lines 203-209
parse_model_name(model_name) ==
    LET colon    == FirstColon(model_name, 1)
        provider == SubSeq(model_name, 1, colon - 1)
        name     == SubSeq(model_name, colon + 1, Len(model_name))
    IN  IF colon # 0 /\ LowerName(provider) = <<"fastembed">> /\ name # <<>>
        THEN Parsed("fastembed", name)
        ELSE Parsed("sentence-transformers", model_name)

\* an embed_model_name is about to be checked and handed to Embedder
InitParse ==
    /\ \E name \in SeqsUpTo(NamePieces, MaxNameLen) :
          pn = [IdlePn EXCEPT !.pc = "check", !.model_name = name]
    /\ ck = IdleCk
    /\ rc = IdleRc
    /\ cf = IdleCf
    /\ mtime = <<>>
    /\ present = {}
    /\ fs = IdleFs
    /\ docs = <<>>
    /\ ing = IdleIng
    /\ runs = <<>>
    /\ calls = 0
    /\ fsOps = 0
    /\ strictIds = TRUE
    /\ sd = IdleSd
    /\ jn = IdleJn
    /\ w = IdleW
    /\ sh = IdleSh
    /\ lc = IdleLc

\* Config.parse_embed_model / the command's check of --embed-model
ParseConfigName ==
    /\ pn.pc = "check"
    /\ pn' = [pn EXCEPT !.pc = "embedder", !.cfg = parse_embed_model_name(pn.model_name)]

\* Embedder(cfg.embed_model_name), lines 194-196
EmbedderInit ==
    /\ pn.pc = "embedder"
    /\ pn' = [pn EXCEPT !.pc = "done", !.embedder = parse_model_name(pn.model_name)]

----------------------------------------------------------------------------
(* Shell: AlterShell.select_model, _warm_start and the shared model cache *)

MaxSelects == 1   \* most select_model calls in SpecShell

\* An Optional value is <<>> for None and <<v>> for v.  The k-th call of
\* select_model selects directory k and model name k; 0 is the models
\* directory and the model name found when nothing is selected.
Or(optional, default) == IF optional = <<>> THEN default ELSE optional[1]

\* GPT4All(name, model_path=dir): the engine built from a directory and a name
Engine(dir, name) == [dir |-> dir, name |-> name]

\* a _warm_start thread begun after `selects` calls of select_model
WarmStart(selects) == [pc |-> "check", gen |-> selects, built |-> <<>>, ret |-> <<>>]

\* AlterShell.__init__, lines 35-37: no model, flag clear, first warm start
InitShell ==
    /\ sh = [IdleSh EXCEPT !.main = "idle", !.threads = <<WarmStart(0)>>]
    /\ ck = IdleCk
    /\ rc = IdleRc
    /\ cf = IdleCf
    /\ mtime = <<>>
    /\ present = {}
    /\ fs = IdleFs
    /\ docs = <<>>
    /\ ing = IdleIng
    /\ runs = <<>>
    /\ calls = 0
    /\ fsOps = 0
    /\ strictIds = TRUE
    /\ sd = IdleSd
    /\ jn = IdleJn
    /\ w = IdleW
    /\ pn = IdlePn
    /\ lc = IdleLc

\* get_shared_model, lines 131-132: if _MODEL is not None: return _MODEL
ShellCheck(t) ==
    /\ sh.threads[t].pc = "check"
    /\ sh' = IF sh.cache # <<>>
             THEN [sh EXCEPT !.threads[t].pc = "install", !.threads[t].ret = sh.cache]
             ELSE [sh EXCEPT !.threads[t].pc = "resolve"]

\* lines 134-138: the selection, or what is discovered, goes to
\* _MODEL_DIR and _MODEL_NAME
ShellResolve(t) ==
    /\ sh.threads[t].pc = "resolve"
    /\ sh' = [sh EXCEPT !.threads[t].pc = "construct",
                        !.model_dir = <<Or(sh.sel_dir, 0)>>,
                        !.model_name = <<Or(sh.sel_name, 0)>>]

\* line 139, right-hand side: GPT4All(_MODEL_NAME, model_path=str(_MODEL_DIR))
\* reads the two globals and builds the engine
ShellConstruct(t) ==
    /\ sh.threads[t].pc = "construct"
    /\ sh.model_dir # <<>> /\ sh.model_name # <<>>
    /\ sh' = [sh EXCEPT !.threads[t].pc = "assign",
                        !.threads[t].built = <<Engine(sh.model_dir[1], sh.model_name[1])>>]

\* line 139 with a global reset to None by set_model_selection: GPT4All raises
ShellConstructFails(t) ==
    /\ sh.threads[t].pc = "construct"
    /\ sh.model_dir = <<>> \/ sh.model_name = <<>>
    /\ sh' = [sh EXCEPT !.threads[t].pc = "failed"]

\* line 139, the assignment: _MODEL = <the engine>
ShellAssign(t) ==
    /\ sh.threads[t].pc = "assign"
    /\ sh' = [sh EXCEPT !.threads[t].pc = "load", !.cache = sh.threads[t].built]

\* line 141: _MODEL.model.load_model()
ShellLoad(t) ==
    /\ sh.threads[t].pc = "load"
    /\ sh' = [sh EXCEPT !.threads[t].pc = IF sh.cache = <<>> THEN "failed" ELSE "return"]

\* line 142: return _MODEL
ShellReturn(t) ==
    /\ sh.threads[t].pc = "return"
    /\ sh' = [sh EXCEPT !.threads[t].pc = "install", !.threads[t].ret = sh.cache]

\* _warm_start, line 42: self._model = get_shared_model()
ShellInstall(t) ==
    /\ sh.threads[t].pc = "install"
    /\ sh' = [sh EXCEPT !.threads[t].pc = "set_ready", !.model = sh.threads[t].ret]

\* _warm_start, line 43: self._model_ready.set()
ShellSetReady(t) ==
    /\ sh.threads[t].pc = "set_ready"
    /\ sh' = [sh EXCEPT !.threads[t].pc = "done", !.ready = TRUE,
                        !.ready_by = sh.threads[t].gen]

\* select_model calls set_model_selection, line 73: _SEL_DIR = ...
SelectDir ==
    /\ sh.main = "idle"
    /\ sh.selects < MaxSelects
    /\ sh' = [sh EXCEPT !.main = "sel_name", !.sel_dir = <<sh.selects + 1>>]

\* set_model_selection, line 74: _SEL_NAME = model_name
SelectName ==
    /\ sh.main = "sel_name"
    /\ sh' = [sh EXCEPT !.main = "clear", !.sel_name = <<sh.selects + 1>>]

\* set_model_selection, lines 76-78: the cached engine is cleared
SelectClearCache ==
    /\ sh.main = "clear"
    /\ sh' = [sh EXCEPT !.main = "unset", !.cache = <<>>, !.model_dir = <<>>,
                        !.model_name = <<>>]

\* select_model, line 52: self._model = None
SelectUnsetModel ==
    /\ sh.main = "unset"
    /\ sh' = [sh EXCEPT !.main = "unready", !.model = <<>>]

\* select_model, line 53: self._model_ready.clear()
SelectClearReady ==
    /\ sh.main = "unready"
    /\ sh' = [sh EXCEPT !.main = "spawn", !.ready = FALSE]

\* select_model, line 54: a new _warm_start thread; select_model returns
SelectSpawn ==
    /\ sh.main = "spawn"
    /\ sh' = [sh EXCEPT !.main = "idle", !.selects = @ + 1,
                        !.threads = Append(@, WarmStart(sh.selects + 1))]

----------------------------------------------------------------------------
(* Specifications *)

NextChunk ==
    \/ ChunkEnter /\ UNCHANGED <<rc, cf, mtime, present, fs, docs, ing, runs, calls, fsOps, strictIds, sd, jn, w, sh, pn, lc>>
    \/ ChunkIterate /\ UNCHANGED <<rc, cf, mtime, present, fs, docs, ing, runs, calls, fsOps, strictIds, sd, jn, w, sh, pn, lc>>
    \/ ChunkReturn /\ UNCHANGED <<rc, cf, mtime, present, fs, docs, ing, runs, calls, fsOps, strictIds, sd, jn, w, sh, pn, lc>>

NextRetrieve ==
    Retrieve /\ UNCHANGED <<ck, cf, mtime, present, fs, docs, ing, runs, calls, fsOps, strictIds, sd, jn, w, sh, pn, lc>>

NextConsolidate ==
    \/ ConsolidatePlan /\ UNCHANGED <<ck, rc, fs, docs, ing, runs, calls, fsOps, strictIds, sd, jn, w, sh, pn, lc>>
    \/ ConsolidateDecline /\ UNCHANGED <<ck, rc, fs, docs, ing, runs, calls, fsOps, strictIds, sd, jn, w, sh, pn, lc>>
    \/ ConsolidateDelete /\ UNCHANGED <<ck, rc, fs, docs, ing, runs, calls, fsOps, strictIds, sd, jn, w, sh, pn, lc>>
    \/ ConsolidateDeleteFails /\ UNCHANGED <<ck, rc, fs, docs, ing, runs, calls, fsOps, strictIds, sd, jn, w, sh, pn, lc>>

Next ==
    \/ \E root \in Roots : IngestCall(root) /\ UNCHANGED <<ck, rc, cf, mtime, present, sd, jn, w, sh, pn, lc>>
    \/ \E root \in Roots : IngestNoFiles(root) /\ UNCHANGED <<ck, rc, cf, mtime, present, sd, jn, w, sh, pn, lc>>
    \/ IngestReadFails /\ UNCHANGED <<ck, rc, cf, mtime, present, sd, jn, w, sh, pn, lc>>
    \/ IngestReadBlank /\ UNCHANGED <<ck, rc, cf, mtime, present, sd, jn, w, sh, pn, lc>>
    \/ IngestReadText /\ UNCHANGED <<ck, rc, cf, mtime, present, sd, jn, w, sh, pn, lc>>
    \/ IngestHashFails /\ UNCHANGED <<ck, rc, cf, mtime, present, sd, jn, w, sh, pn, lc>>
    \/ IngestHashAppend /\ UNCHANGED <<ck, rc, cf, mtime, present, sd, jn, w, sh, pn, lc>>
    \/ IngestNothing /\ UNCHANGED <<ck, rc, cf, mtime, present, sd, jn, w, sh, pn, lc>>
    \/ IngestBackendDown /\ UNCHANGED <<ck, rc, cf, mtime, present, sd, jn, w, sh, pn, lc>>
    \/ IngestUpsertRejected /\ UNCHANGED <<ck, rc, cf, mtime, present, sd, jn, w, sh, pn, lc>>
    \/ IngestUpsert /\ UNCHANGED <<ck, rc, cf, mtime, present, sd, w, sh, pn, lc>>
    \/ \E p \in Mutable, c \in Contents : FsWrite(p, c) /\ UNCHANGED <<ck, rc, cf, mtime, present, sd, jn, w, sh, pn, lc>>
    \/ \E p \in Mutable : FsRemove(p) /\ UNCHANGED <<ck, rc, cf, mtime, present, sd, jn, w, sh, pn, lc>>
    \/ \E p \in Mutable : FsDeny(p) /\ UNCHANGED <<ck, rc, cf, mtime, present, sd, jn, w, sh, pn, lc>>

NextScan ==
    \/ ScanNames /\ UNCHANGED <<ck, rc, cf, mtime, present, fs, docs, ing, runs, calls, fsOps, strictIds, jn, w, sh, pn, lc>>
    \/ ScanSkip /\ UNCHANGED <<ck, rc, cf, mtime, present, fs, docs, ing, runs, calls, fsOps, strictIds, jn, w, sh, pn, lc>>
    \/ ScanHash /\ UNCHANGED <<ck, rc, cf, mtime, present, fs, docs, ing, runs, calls, fsOps, strictIds, jn, w, sh, pn, lc>>
    \/ ScanHashFails /\ UNCHANGED <<ck, rc, cf, mtime, present, fs, docs, ing, runs, calls, fsOps, strictIds, jn, w, sh, pn, lc>>
    \/ ScanReturn /\ UNCHANGED <<ck, rc, cf, mtime, present, fs, docs, ing, runs, calls, fsOps, strictIds, jn, w, sh, pn, lc>>

NextJournal ==
    \/ ClockTick /\ UNCHANGED <<ck, rc, cf, mtime, present, fs, docs, ing, runs, calls, fsOps, strictIds, sd, w, sh, pn, lc>>
    \/ \E text \in JournalTexts :
          SaveMemory(text) /\ UNCHANGED <<ck, rc, cf, mtime, present, fs, docs, ing, runs, calls, fsOps, strictIds, sd, w, sh, pn, lc>>
    \/ \E text \in JournalTexts, subtype \in Subtypes :
          SaveStateNote(text, subtype) /\ UNCHANGED <<ck, rc, cf, mtime, present, fs, docs, ing, runs, calls, fsOps, strictIds, sd, w, sh, pn, lc>>

NextWatch ==
    \/ WatchCall /\ UNCHANGED <<ck, rc, cf, mtime, present, sd, jn, sh, pn, lc>>
    \/ \E source \in WatchSources, more \in BOOLEAN :
          WatchEmit(source, more) /\ UNCHANGED <<ck, rc, cf, mtime, present, sd, jn, sh, pn, lc>>
    \/ WatchDispatchIgnored /\ UNCHANGED <<ck, rc, cf, mtime, present, sd, jn, sh, pn, lc>>
    \/ WatchDispatchIngest /\ UNCHANGED <<ck, rc, cf, mtime, present, sd, jn, sh, pn, lc>>
    \/ WatchDispatchIngestGone /\ UNCHANGED <<ck, rc, cf, mtime, present, sd, jn, sh, pn, lc>>
    \/ IngestReadText /\ UNCHANGED w /\ UNCHANGED <<ck, rc, cf, mtime, present, sd, jn, sh, pn, lc>>
    \/ IngestHashAppend /\ UNCHANGED w /\ UNCHANGED <<ck, rc, cf, mtime, present, sd, jn, sh, pn, lc>>
    \/ IngestUpsert /\ UNCHANGED w /\ UNCHANGED <<ck, rc, cf, mtime, present, sd, sh, pn, lc>>
    \/ WatchIngestBackendDown /\ UNCHANGED <<ck, rc, cf, mtime, present, sd, jn, sh, pn, lc>>
    \/ WatchStop /\ UNCHANGED <<ck, rc, cf, mtime, present, sd, jn, sh, pn, lc>>

NextConfig ==
    \/ LoadConfigExisting /\ UNCHANGED <<ck, rc, cf, mtime, present, fs, docs, ing, runs, calls, fsOps, strictIds, sd, jn, w, sh, pn>>
    \/ LoadConfigMissing /\ UNCHANGED <<ck, rc, cf, mtime, present, fs, docs, ing, runs, calls, fsOps, strictIds, sd, jn, w, sh, pn>>

SpecConfig      == InitConfig /\ [][NextConfig]_vars
NextParse ==
    \/ ParseConfigName /\ UNCHANGED <<ck, rc, cf, mtime, present, fs, docs, ing, runs, calls, fsOps, strictIds, sd, jn, w, sh, lc>>
    \/ EmbedderInit /\ UNCHANGED <<ck, rc, cf, mtime, present, fs, docs, ing, runs, calls, fsOps, strictIds, sd, jn, w, sh, lc>>

SpecParse       == InitParse /\ [][NextParse]_vars
NextShell ==
    \/ \E t \in 1..Len(sh.threads) : ShellCheck(t) /\ UNCHANGED <<ck, rc, cf, mtime, present, fs, docs, ing, runs, calls, fsOps, strictIds, sd, jn, w, pn, lc>>
    \/ \E t \in 1..Len(sh.threads) : ShellResolve(t) /\ UNCHANGED <<ck, rc, cf, mtime, present, fs, docs, ing, runs, calls, fsOps, strictIds, sd, jn, w, pn, lc>>
    \/ \E t \in 1..Len(sh.threads) : ShellConstruct(t) /\ UNCHANGED <<ck, rc, cf, mtime, present, fs, docs, ing, runs, calls, fsOps, strictIds, sd, jn, w, pn, lc>>
    \/ \E t \in 1..Len(sh.threads) : ShellConstructFails(t) /\ UNCHANGED <<ck, rc, cf, mtime, present, fs, docs, ing, runs, calls, fsOps, strictIds, sd, jn, w, pn, lc>>
    \/ \E t \in 1..Len(sh.threads) : ShellAssign(t) /\ UNCHANGED <<ck, rc, cf, mtime, present, fs, docs, ing, runs, calls, fsOps, strictIds, sd, jn, w, pn, lc>>
    \/ \E t \in 1..Len(sh.threads) : ShellLoad(t) /\ UNCHANGED <<ck, rc, cf, mtime, present, fs, docs, ing, runs, calls, fsOps, strictIds, sd, jn, w, pn, lc>>
    \/ \E t \in 1..Len(sh.threads) : ShellReturn(t) /\ UNCHANGED <<ck, rc, cf, mtime, present, fs, docs, ing, runs, calls, fsOps, strictIds, sd, jn, w, pn, lc>>
    \/ \E t \in 1..Len(sh.threads) : ShellInstall(t) /\ UNCHANGED <<ck, rc, cf, mtime, present, fs, docs, ing, runs, calls, fsOps, strictIds, sd, jn, w, pn, lc>>
    \/ \E t \in 1..Len(sh.threads) : ShellSetReady(t) /\ UNCHANGED <<ck, rc, cf, mtime, present, fs, docs, ing, runs, calls, fsOps, strictIds, sd, jn, w, pn, lc>>
    \/ SelectDir /\ UNCHANGED <<ck, rc, cf, mtime, present, fs, docs, ing, runs, calls, fsOps, strictIds, sd, jn, w, pn, lc>>
    \/ SelectName /\ UNCHANGED <<ck, rc, cf, mtime, present, fs, docs, ing, runs, calls, fsOps, strictIds, sd, jn, w, pn, lc>>
    \/ SelectClearCache /\ UNCHANGED <<ck, rc, cf, mtime, present, fs, docs, ing, runs, calls, fsOps, strictIds, sd, jn, w, pn, lc>>
    \/ SelectUnsetModel /\ UNCHANGED <<ck, rc, cf, mtime, present, fs, docs, ing, runs, calls, fsOps, strictIds, sd, jn, w, pn, lc>>
    \/ SelectClearReady /\ UNCHANGED <<ck, rc, cf, mtime, present, fs, docs, ing, runs, calls, fsOps, strictIds, sd, jn, w, pn, lc>>
    \/ SelectSpawn /\ UNCHANGED <<ck, rc, cf, mtime, present, fs, docs, ing, runs, calls, fsOps, strictIds, sd, jn, w, pn, lc>>

SpecShell       == InitShell /\ [][NextShell]_vars
SpecChunk       == InitChunk /\ [][NextChunk]_vars
SpecWatch       == InitWatch /\ [][NextWatch]_vars
SpecJournal     == InitJournal /\ [][NextJournal]_vars
SpecScan        == InitScan /\ [][NextScan]_vars
SpecRetrieve    == InitRetrieve /\ [][NextRetrieve]_vars
SpecConsolidate == InitConsolidate /\ [][NextConsolidate]_vars
Spec            == Init /\ [][Next]_vars

----------------------------------------------------------------------------
(* Properties *)

RECURSIVE SumLen(_)
SumLen(snippets) ==
    IF snippets = <<>> THEN 0 ELSE snippets[1].len + SumLen(Tail(snippets))

\* C1: two consecutive ingest_path calls on the same root, with no file
\* changed from the start of the first to the end of the second and the
\* backend available, collect the same set of chunk ids, and docs holds as
\* many records after the second call as after the first.
C1_IdempotentIngest ==
    \A n \in 1..(Len(runs) - 1) :
        LET a == runs[n]
            b == runs[n + 1]
        IN  (/\ a.root = b.root
             /\ a.v0 = b.v1
             /\ a.outcome # "backend_error"
             /\ b.outcome # "backend_error")
            => (b.ids = a.ids /\ b.count = a.count)

C1_Witness ==
    /\ Len(runs) = 2
    /\ fsOps > 0
    /\ docs # <<>>
    /\ runs[1].root = DataDir /\ runs[2].root = DataDir
    /\ runs[1].v0 = runs[2].v1
    /\ runs[1].outcome = "upserted" /\ runs[2].outcome = "upserted"
    /\ Cardinality(runs[2].ids) >= 3

\* C2: every record of docs comes from a file that matches no ignore glob
\* and whose extension is in the allow-list, whatever root was ingested.
C2_OnlyEligibleFilesIngested ==
    \A id \in DOMAIN docs : Eligible(docs[id].path)

\* C3: a chunk_text call with size <= overlap ends at once in a
\* configuration error, for every text.
C3_FailsFastOnBadOverlap ==
    (ck.pc \notin {"idle", "call"} /\ ck.size <= ck.overlap) => ck.pc = "error"

\* C4: a file access that fails while a batch is built costs the batch only
\* that file: unless the backend or the store refused the batch, the chunks
\* of every file of the batch that stayed readable, unchanged and non-blank
\* are in docs once the call is over.
C4_FileFailureSkipsOnlyThatFile ==
    (runs # <<>> /\ runs[Len(runs)].outcome \notin {"backend_error", "duplicate_ids"})
    => runs[Len(runs)].expected \subseteq DOMAIN docs

\* C5: the lengths of the snippets retrieve_context returns add up to at
\* most the budget of 6000 characters.
C5_ResultWithinBudget ==
    rc.pc = "done" => SumLen(rc.result) <= Budget

C5_Witness ==
    /\ rc.pc = "done"
    /\ Len(rc.joined) < Len(rc.contexts)
    /\ Len(rc.result) >= 2
    /\ SumLen(rc.result) > Budget - 400

\* C6, as claimed: whenever the two queries return a match, at least
\* min(3, number of matches) snippets are returned.
C6_AtLeastThreeOrAll ==
    (rc.pc = "done" /\ Len(rc.contexts) >= 1)
    => Len(rc.result) >= Min(3, Len(rc.contexts))

\* C6, amended: at least min(3, number of matches) snippets are returned
\* whenever the first min(3, number of matches) candidates fit the budget
\* together, and at least one whenever some candidate fits the budget alone.
C6_AtLeastThreeWhenTheyFit ==
    rc.pc = "done" =>
        LET m == Min(3, Len(rc.contexts))
        IN  /\ SumLen(SubSeq(rc.contexts, 1, m)) <= Budget => Len(rc.result) >= m
            /\ (\E k \in 1..Len(rc.contexts) : rc.contexts[k].len <= Budget)
                   => rc.result # <<>>

C6_Witness ==
    /\ rc.pc = "done"
    /\ Len(rc.contexts) >= 2
    /\ SumLen(SubSeq(rc.contexts, 1, Min(3, Len(rc.contexts)))) <= Budget
    /\ Len(rc.result) = Min(3, Len(rc.contexts))
    /\ rc.top_k < 3

\* C7, as claimed: the result is a prefix of the candidate sequence.
C7_ResultIsPrefixOfCandidates ==
    rc.pc = "done" => rc.result = SubSeq(rc.contexts, 1, Len(rc.result))

\* C7, amended: candidates are taken in order, a candidate being accepted
\* exactly when it fits in what the accepted candidates before it left of
\* the budget (a rejected candidate does not end the scan), and the result
\* is the first max(3, top_k) accepted candidates, in candidate order.
C7_FirstFitInCandidateOrder ==
    rc.pc = "done" =>
        LET accepted == {rc.joined[n].pos : n \in 1..Len(rc.joined)}
            UsedBefore(k) == SumLen(SelectSeqBy(rc.joined,
                                 {c \in Range(rc.joined) : c.pos < k}))
        IN  /\ \A n \in 1..Len(rc.joined) :
                   rc.joined[n] = rc.contexts[rc.joined[n].pos]
            /\ \A m, n \in 1..Len(rc.joined) :
                   m < n => rc.joined[m].pos < rc.joined[n].pos
            /\ \A k \in 1..Len(rc.contexts) :
                   k \in accepted <=> UsedBefore(k) + rc.contexts[k].len <= Budget
            /\ rc.result = SubSeq(rc.joined, 1, Min(Len(rc.joined), Max(3, rc.top_k)))

C7_Witness ==
    /\ rc.pc = "done"
    /\ \E m, n \in 1..Len(rc.contexts) :
          /\ m < n
          /\ rc.contexts[m] \notin Range(rc.result)
          /\ rc.contexts[n] \in Range(rc.result)

\* C8: in the plan, the kept path of a group has the largest modification
\* time of the group under newest, the smallest under oldest, and is the
\* group's first path under keep_first; the paths to remove are all the
\* other paths of the group.
C8_PlanKeepsByStrategy ==
    cf.pc \in {"exec", "done"} =>
        /\ Len(cf.actions) = Len(cf.filename_dupes)
        /\ \A g \in 1..Len(cf.actions) :
              LET paths == cf.filename_dupes[g].paths
                  a     == cf.actions[g]
              IN  /\ a.keep \in Range(paths)
                  /\ cf.strategy = "newest" =>
                         \A p \in Range(paths) : mtime[p] <= mtime[a.keep]
                  /\ cf.strategy = "oldest" =>
                         \A p \in Range(paths) : mtime[p] >= mtime[a.keep]
                  /\ cf.strategy = "keep_first" => a.keep = paths[1]
                  /\ Range(a.to_remove) = Range(paths) \ {a.keep}
                  /\ Len(a.to_remove) = Len(paths) - 1

C8_Witness ==
    /\ cf.pc = "done"
    /\ cf.strategy = "newest"
    /\ \E g \in 1..Len(cf.actions) :
          LET paths == cf.filename_dupes[g].paths
          IN  /\ Len(paths) = 3
              /\ mtime[paths[1]] < mtime[paths[3]]
              /\ mtime[paths[3]] < mtime[paths[2]]
              /\ cf.actions[g].keep = paths[2]
              /\ cf.actions[g].to_remove = <<paths[1], paths[3]>>

\* the positions of the paths of a group whose modification time is t
TiedAt(paths, t) == {n \in 1..Len(paths) : mtime[paths[n]] = t}
MaxOf(S) == CHOOSE x \in S : \A y \in S : y <= x
MinOf(S) == CHOOSE x \in S : \A y \in S : x <= y
NewestTime(paths) == MaxOf({mtime[p] : p \in Range(paths)})
OldestTime(paths) == MinOf({mtime[p] : p \in Range(paths)})

\* C9, as claimed: under newest and under oldest the kept path is the
\* first, in enumeration order, of the paths that tie on the deciding time.
C9_TieKeepsFirstEnumerated ==
    cf.pc \in {"exec", "done"} =>
        \A g \in 1..Len(cf.actions) :
            LET paths == cf.filename_dupes[g].paths
            IN  /\ cf.strategy = "newest" =>
                      cf.actions[g].keep = paths[MinOf(TiedAt(paths, NewestTime(paths)))]
                /\ cf.strategy = "oldest" =>
                      cf.actions[g].keep = paths[MinOf(TiedAt(paths, OldestTime(paths)))]

\* C9, amended: under oldest the kept path is the first, in enumeration
\* order, of the paths that tie on the smallest time; under newest it is
\* the last of the paths that tie on the largest time.
C9_TieKeepsFirstOldestLastNewest ==
    cf.pc \in {"exec", "done"} =>
        \A g \in 1..Len(cf.actions) :
            LET paths == cf.filename_dupes[g].paths
            IN  /\ cf.strategy = "newest" =>
                      cf.actions[g].keep = paths[MaxOf(TiedAt(paths, NewestTime(paths)))]
                /\ cf.strategy = "oldest" =>
                      cf.actions[g].keep = paths[MinOf(TiedAt(paths, OldestTime(paths)))]

C9_Witness ==
    /\ cf.pc = "done"
    /\ cf.strategy = "newest"
    /\ \E g \in 1..Len(cf.actions) :
          LET paths == cf.filename_dupes[g].paths
          IN  /\ Len(paths) = 3
              /\ Cardinality(TiedAt(paths, NewestTime(paths))) = 2
              /\ Cardinality(TiedAt(paths, OldestTime(paths))) = 1

\* C10: a file disappears during execution only in the step in which the
\* confirmation for that very path, a path of the plan's removal lists, was
\* answered yes; a declined path and the kept path of every group are
\* still there, at every point of the execution and after it.
C10_State ==
    cf.pc \in {"exec", "done"} =>
        /\ \A p \in cf.before \ present :
              /\ \E g \in 1..Len(cf.actions) : p \in Range(cf.actions[g].to_remove)
              /\ \E k \in 1..Len(cf.asked) : cf.asked[k] = [path |-> p, answer |-> TRUE]
        /\ \A k \in 1..Len(cf.asked) :
              cf.asked[k].answer = FALSE => cf.asked[k].path \in present
        /\ \A g \in 1..Len(cf.actions) : cf.actions[g].keep \in present

C10_Step ==
    present' # present =>
        /\ cf.pc = "exec"
        /\ present' = present \ {cf.actions[cf.g].to_remove[cf.r]}
        /\ cf'.asked = Append(cf.asked, [path |-> cf.actions[cf.g].to_remove[cf.r],
                                         answer |-> TRUE])

C10_DeletesOnlyConfirmedRemovals == []C10_State /\ [][C10_Step]_vars

C10_Witness ==
    /\ cf.pc = "done"
    /\ Len(cf.actions) = 2
    /\ \E k \in 1..Len(cf.asked) : cf.asked[k].answer = FALSE
    /\ Cardinality(cf.before \ present) = 2
    /\ Len(cf.asked) = 3

\* C11: in plan-only mode (only_list true) consolidate_files deletes no file
\* and asks no confirmation, whatever the filename groups and the strategy:
\* the files present are those present before the call.
C11_PlanOnlyTouchesNothing ==
    cf.only_list => (present = cf.before /\ cf.asked = <<>>)

\* a plan-only call that returned with a plan naming files to remove
C11_Witness ==
    /\ cf.only_list
    /\ cf.pc = "done"
    /\ \E g \in 1..Len(cf.actions) : cf.actions[g].to_remove # <<>>
    /\ present = cf.before

\* the files scan_dupes groups, and those of them it can hash
ScanEligible == {p \in SPaths : fs[p].state # "absent" /\ Eligible(p)}
ScanHashable == {p \in ScanEligible : fs[p].state = "ok"}
SameName(p)    == {q \in ScanEligible : BaseName(q) = BaseName(p)}
SameContent(p) == {q \in ScanHashable : fs[q].content = fs[p].content}

\* C12: scan_dupes reports in filename_dupes exactly the basenames shared by
\* at least 2 eligible files, each with exactly the files of that name, and
\* in exact_dupes exactly the content hashes shared by at least 2 eligible
\* files that could be hashed, each with exactly the files of that content; a
\* file whose hashing fails is skipped and the scan goes on.  Hence files
\* of one content and different names are together in exact_dupes, and files
\* of one name and different content are together in filename_dupes and in no
\* exact_dupes group.
C12_ScanReportsExactlyTheDuplicates ==
    sd.pc = "done" =>
        /\ {g.name : g \in Range(sd.filename_dupes)}
               = {BaseName(p) : p \in {q \in ScanEligible : Cardinality(SameName(q)) >= 2}}
        /\ \A g \in Range(sd.filename_dupes) :
               /\ Range(g.paths) = {p \in ScanEligible : BaseName(p) = g.name}
               /\ Len(g.paths) = Cardinality(Range(g.paths))
        /\ {g.key : g \in Range(sd.exact_dupes)}
               = {sha1_bytes(fs[p].content) :
                     p \in {q \in ScanHashable : Cardinality(SameContent(q)) >= 2}}
        /\ \A g \in Range(sd.exact_dupes) :
               /\ Range(g.paths) = {p \in ScanHashable : sha1_bytes(fs[p].content) = g.key}
               /\ Len(g.paths) = Cardinality(Range(g.paths))
        /\ \A p, q \in ScanHashable :
               (p # q /\ fs[p].content = fs[q].content) =>
                   \E g \in Range(sd.exact_dupes) : {p, q} \subseteq Range(g.paths)
        /\ \A p, q \in ScanEligible :
               (p # q /\ BaseName(p) = BaseName(q)
                      /\ (fs[p].content # fs[q].content \/ ~({p, q} \subseteq ScanHashable))) =>
                   /\ \E g \in Range(sd.filename_dupes) : {p, q} \subseteq Range(g.paths)
                   /\ ~\E g \in Range(sd.exact_dupes) : {p, q} \subseteq Range(g.paths)

\* a finished scan that met a file it could not hash, reports two files of
\* one name and different content, and two files of one content and
\* different names
C12_Witness ==
    /\ sd.pc = "done"
    /\ \E p \in ScanEligible : fs[p].state = "unreadable"
    /\ \E g \in Range(sd.filename_dupes), m, n \in 1..2 :
           /\ {g.paths[m], g.paths[n]} \subseteq ScanHashable
           /\ fs[g.paths[m]].content # fs[g.paths[n]].content
    /\ \E g \in Range(sd.exact_dupes) :
           BaseName(g.paths[1]) # BaseName(g.paths[2])

\* C13: two save_memory calls (or two save_state_note calls) with identical
\* text always produce two distinct entry ids, whatever the time elapsed
\* between them: each call increases the entry count of its collection by
\* one and overwrites no earlier entry.
C13_EverySaveAddsAnEntry ==
    /\ \A m, n \in 1..Len(jn.saved) :
           (m # n /\ jn.saved[m].kind = jn.saved[n].kind
                  /\ jn.saved[m].text = jn.saved[n].text)
               => jn.saved[m].id # jn.saved[n].id
    /\ \A n \in 1..Len(jn.saved) :
           /\ Cardinality(DOMAIN jn.saved[n].after)
                  = Cardinality(DOMAIN jn.saved[n].before) + 1
           /\ \A id \in DOMAIN jn.saved[n].before :
                  jn.saved[n].after[id] = jn.saved[n].before[id]

\* C14: once a chunk id is in docs no engine operation ever deletes it, and
\* the text stored under it is replaced only if the content hash of the source
\* file changed; across any sequence of operations the set of ids in docs
\* never shrinks.
C14_Step ==
    /\ DOMAIN docs \subseteq DOMAIN docs'
    /\ \A id \in DOMAIN docs :
           docs'[id].document # docs[id].document
               => docs'[id].file_sha1 # docs[id].file_sha1

C14_IdsKeptTextReplacedOnlyOnNewHash == [][C14_Step]_vars

\* the window of size characters that starts at offset o, cut at the end of
\* the text
Window(txt, o, size) == SubSeq(txt, o + 1, Min(o + size, Len(txt)))

\* the last n characters of s, all of s when it has fewer
LastChars(s, n) == SubSeq(s, Max(1, Len(s) - n + 1), Len(s))

\* the first n characters of s, all of s when it has fewer
FirstChars(s, n) == SubSeq(s, 1, Min(n, Len(s)))

\* C15: for overlap < size and a normalized text longer than size, chunk_text
\* returns the windows of the normalized text that start at the offsets 0,
\* (size-overlap), 2*(size-overlap), ... until the text is exhausted; every
\* chunk except the final one has exactly size characters, only the final
\* chunk may be shorter.
C15_WindowsOnlyFinalShorter ==
    (ck.pc = "done" /\ ck.overlap < ck.size /\ Len(ck.txt) > ck.size) =>
        LET step == ck.size - ck.overlap
        IN  /\ \A n \in 1..Len(ck.chunks) :
                   ck.chunks[n] = Window(ck.txt, (n - 1) * step, ck.size)
            /\ \A n \in 1..(Len(ck.chunks) - 1) : Len(ck.chunks[n]) = ck.size
            /\ Len(ck.chunks[Len(ck.chunks)]) <= ck.size

\* C16: for overlap < size and every chunk i > 0 returned by chunk_text, the
\* first overlap characters of chunk i are the last overlap characters of
\* the region of the normalized text that the window of chunk i-1 covers.
C16_ChunksOverlap ==
    (ck.pc = "done" /\ ck.overlap < ck.size) =>
        \A n \in 2..Len(ck.chunks) :
            FirstChars(ck.chunks[n], ck.overlap)
                = LastChars(Window(ck.txt, (n - 2) * (ck.size - ck.overlap), ck.size),
                            ck.overlap)

\* C17: if the normalized text has at most size characters chunk_text returns
\* exactly one chunk, the normalized text, whatever the overlap; and the
\* chunks returned are the ones the arguments determine.
C17_ShortTextIsOneChunk ==
    ck.pc = "done" =>
        /\ Len(clean_text(ck.src)) <= ck.size => ck.chunks = <<clean_text(ck.src)>>
        /\ ck.chunks = chunk_text(ck.src, ck.size, ck.overlap)

\* a call that returned one chunk for a text that normalization shortened to
\* exactly size characters, with an overlap that is not below size
C17_Witness ==
    /\ ck.pc = "done"
    /\ ck.overlap >= ck.size
    /\ Len(ck.txt) = ck.size
    /\ Len(ck.src) > ck.size
    /\ ck.chunks = <<ck.txt>>

\* C18: when several create / modify events for the same eligible path arrive
\* in a burst the watcher debounces them: the burst results in a single
\* ingest of that path, not in one ingest per event.
C18_BurstIngestedOnce ==
    \A m, n \in 1..Len(w.handled) :
        (m # n /\ w.handled[m].ingest /\ w.handled[n].ingest)
            => w.handled[m].event.burst # w.handled[n].event.burst

\* the filter of claim C19, in the claim's words
C19_Eligible(event) ==
    /\ event.kind \in {"created", "modified"}
    /\ ~event.is_directory
    /\ ~within_any_glob(event.src_path)
    /\ AllowedExt(event.src_path)

C19_State ==
    \A n \in 1..Len(w.handled) :
        w.handled[n].ingest <=> C19_Eligible(w.handled[n].event)

C19_Step ==
    /\ Len(w'.handled) > Len(w.handled) =>
          IF C19_Eligible(Head(w.queue))
          THEN /\ calls' = calls + 1
               /\ \/ ing'.pc = "read" /\ ing'.files = <<Head(w.queue).src_path>>
                  \/ /\ ing'.pc = "idle"
                     /\ runs'[Len(runs')].root = Head(w.queue).src_path
                     /\ runs'[Len(runs')].outcome = "no_files"
               /\ docs' = docs
          ELSE /\ calls' = calls
               /\ ing' = ing
               /\ runs' = runs
               /\ docs' = docs
               /\ jn' = jn
    /\ calls' # calls => Len(w'.handled) > Len(w.handled)

\* C19: a watcher create or modify event triggers ingest_path, for exactly
\* the path of the event, if and only if the event is no directory event,
\* its path matches no ignore glob and its extension is in the allow-list;
\* every other event triggers no ingest and changes no collection.
C19_WatcherIngestsIffEligible == []C19_State /\ [][C19_Step]_vars

\* the watcher has ingested for an eligible event and has dropped a directory
\* event, an event under an ignored directory and one of a disallowed
\* extension
C19_Witness ==
    /\ \E n \in 1..Len(w.handled) :
           w.handled[n].ingest /\ w.handled[n].event.src_path = FileA
    /\ \E n \in 1..Len(w.handled) :
           ~w.handled[n].ingest /\ w.handled[n].event.src_path \in {NotesDir, FileG, FileD}
    /\ DOMAIN docs # {}

\* C20: if a watcher-triggered ingest fails because the embedding or the
\* vector-store backend is unavailable the watch loop does not crash: the
\* watcher stays in Watching (until it is stopped), so that a later eligible
\* event still triggers an ingest.
C20_WatcherSurvivesBackendFailure ==
    (\E k \in 1..Len(runs) : runs[k].outcome = "backend_error")
        => w.observer \in {"watching", "stopped"}

\* an ingest_path call returns in this step
Returning == ing'.pc = "idle" /\ (ing.pc # "idle" \/ calls' # calls)

\* C21: ingest_path makes an embed call and a docs upsert if and only if the
\* batch of chunks is not empty, and then one of each that covers all the
\* chunks of the batch; when no file survives the filter or every surviving
\* file is empty after normalization it makes no embed call and no upsert,
\* leaves the collections unchanged and returns without error.  (The embed
\* call and the upsert are made in the calls that end as "upserted", or
\* with the backend raising from one of the two.)
C21_Step ==
    /\ docs' # docs => (Returning /\ runs'[Len(runs')].outcome = "upserted")
    /\ Returning =>
          LET outcome == runs'[Len(runs')].outcome
          IN  /\ ing.batch # <<>> <=>
                     outcome \in {"upserted", "backend_error", "duplicate_ids"}
              /\ outcome = "upserted" =>
                     \A n \in 1..Len(ing.batch) : ing.batch[n].id \in DOMAIN docs'
              /\ (ing.pc = "idle" \/ (ing.pc = "flush" /\ ing.batch = <<>>)) =>
                     (outcome \in {"no_files", "nothing"} /\ docs' = docs)

C21_EmbedAndUpsertIffBatch == [][C21_Step]_vars

\* C22: ingest_path never creates, modifies or deletes a file and never
\* writes to the memories or the state-notes collection: a step of a call
\* (any step that is not another process's change of the file system)
\* leaves the file system and those two collections as they were, so that
\* only the docs collection can differ after the call.
C22_Step == fsOps' = fsOps => (fs' = fs /\ jn'.mem = jn.mem /\ jn'.state = jn.state)

C22_IngestOnlyWritesDocs == [][C22_Step]_vars

C22_Witness ==
    /\ runs # <<>>
    /\ runs[Len(runs)].outcome = "upserted"
    /\ docs # <<>>
    /\ fsOps = 0
    /\ fs = InitialFs
    /\ jn = IdleJn

\* C25: for every chunk record of docs, the stored text is chunk number
\* chunk_index of the file content whose SHA-1 is the record's file_sha1,
\* under the configured size and overlap, whatever writes to the files are
\* interleaved with an ingest.
C25_StoredTextIsOfTheHashedContent ==
    \A id \in DOMAIN docs :
        LET chunks == chunk_text(docs[id].file_sha1[2], cfg_chunk_chars, cfg_chunk_overlap)
        IN  /\ docs[id].chunk_index + 1 <= Len(chunks)
            /\ docs[id].document = chunks[docs[id].chunk_index + 1]

\* C27: in every ingest_path call the list of ids passed to the docs upsert
\* holds no id twice, also when the directory holds two eligible files of
\* identical content.
C27_NoRepeatedIdInOneUpsert ==
    ing.pc = "flush" => ~HasRepeatedId(ing.batch)

\* C26 as stated: after a file's content changed and the file was ingested
\* again, with no write during or after the call, docs holds no chunk whose
\* path is that file and whose file_sha1 is not the hash of the file's
\* current content.
C26_NoStaleChunkAfterReingest ==
    (/\ ing.pc = "idle"
     /\ runs # <<>>
     /\ runs[Len(runs)].outcome = "upserted"
     /\ runs[Len(runs)].v0 = fsOps
     /\ runs[Len(runs)].v1 = fsOps
     /\ IsFile(runs[Len(runs)].root))
        => \A id \in DOMAIN docs :
               docs[id].path = runs[Len(runs)].root
                   => docs[id].file_sha1 = sha1_bytes(fs[runs[Len(runs)].root].content)

\* C26: an ingest that reaches the upsert stores every chunk id of its
\* batch, and docs keeps every chunk id stored by an earlier ingest, each
\* under the file_sha1 and chunk_index its id is built from: the chunks of a
\* file's earlier contents stay in docs when the changed file is ingested
\* again.
C26_ReingestKeepsEarlierChunks ==
    \A n \in 1..Len(runs) :
        runs[n].outcome = "upserted" =>
            \A id \in runs[n].ids :
                /\ id \in DOMAIN docs
                /\ docs[id].file_sha1 = id[1]
                /\ docs[id].chunk_index = id[2]

C26_Witness ==
    /\ Len(runs) = 2
    /\ runs[1].outcome = "upserted" /\ runs[1].root = FileA
    /\ runs[2].outcome = "upserted" /\ runs[2].root = FileA
    /\ runs[2].v0 = fsOps /\ runs[2].v1 = fsOps
    /\ runs[1].ids # runs[2].ids
    /\ \E id \in DOMAIN docs :
           /\ docs[id].path = FileA
           /\ docs[id].file_sha1 # sha1_bytes(fs[FileA].content)

\* the snippets of one collection, in the order of the sequence
OfCollection(snippets, coll) ==
    SelectSeqBy(snippets, {c \in Range(snippets) : c.coll = coll})

\* C28: retrieve_context returns at most max(3, top_k) snippets, the front
\* of the accepted docs-then-memories sequence; so when top_k >= 3 and the
\* docs query yields top_k hits that fit the budget together, no snippet of
\* the result is from the memories collection.
C28_CapStarvesMemories ==
    rc.pc = "done" =>
        /\ Len(rc.result) <= Max(3, rc.top_k)
        /\ rc.result = SubSeq(rc.joined, 1, Len(rc.result))
        /\ \A m, n \in 1..Len(rc.joined) :
               (rc.joined[m].coll = "mem" /\ rc.joined[n].coll = "docs") => n < m
        /\ (/\ rc.top_k >= 3
            /\ Len(OfCollection(rc.contexts, "docs")) = rc.top_k
            /\ SumLen(OfCollection(rc.contexts, "docs")) <= Budget)
               => OfCollection(rc.result, "mem") = <<>>

C28_Witness ==
    /\ rc.pc = "done"
    /\ rc.top_k >= 3
    /\ Len(OfCollection(rc.contexts, "docs")) = rc.top_k
    /\ SumLen(OfCollection(rc.contexts, "docs")) <= Budget
    /\ OfCollection(rc.joined, "mem") # <<>>
    /\ OfCollection(rc.result, "mem") = <<>>
    /\ Len(rc.result) = rc.top_k

\* C24: when the watchdog library is unavailable, watch_path reports
\* "watchdog is not installed" and returns: no observer is started, no
\* event is queued or handled, no ingest_path call is made, docs is
\* unchanged and nothing is raised.
C24_NoWatchdogReturnsAtOnce ==
    ~w.watchdog_ok =>
        /\ w.observer \in {"called", "returned"}
        /\ w.observer = "returned" =>
               w.printed = <<"watchdog is not installed; cannot watch.">>
        /\ w.queue = <<>> /\ w.handled = <<>>
        /\ calls = 0 /\ ing = IdleIng /\ runs = <<>> /\ docs = <<>>

C24_Witness ==
    /\ ~w.watchdog_ok
    /\ w.observer = "returned"
    /\ w.printed = <<"watchdog is not installed; cannot watch.">>
    /\ docs = <<>>

\* C23: load_config on an existing file whose YAML content is not a
\* mapping raises ValueError with the message "Config file must contain a
\* mapping", and on an existing empty file it returns a Config with every
\* field at its default.
C23_NonMappingRejectedEmptyIsDefaults ==
    (lc.pc = "done" /\ ~lc.written) =>
        /\ lc.file[1].t \in {"scalar", "sequence"} =>
               lc.result = Raised("ValueError", "Config file must contain a mapping")
        /\ lc.file[1].t = "empty" => lc.result = Returned(ConfigDefaults)

\* C30: the two model-name parsers agree: a string parse_embed_model_name
\* accepts gives the same (provider, model name) pair in
\* Embedder._parse_model_name, and a string it rejects with ValueError is
\* not accepted by Embedder under a provider.
C30_ParsersAgree ==
    pn.pc = "done" =>
        IF "raised" \in DOMAIN pn.cfg
        THEN "provider" \notin DOMAIN pn.embedder
        ELSE pn.embedder = pn.cfg

\* C29: after select_model has returned, the ready flag is set only by a
\* warm start begun after that call and only with the newly selected model
\* loaded, and neither the shell nor the shared cache holds a model built
\* from a previous selection, under every interleaving of the threads.
C29_ReadyOnlyWithSelectedModel ==
    (sh.main = "idle" /\ sh.selects >= 1) =>
        LET selected == <<Engine(sh.selects, sh.selects)>>
        IN  /\ sh.ready => (sh.ready_by = sh.selects /\ sh.model = selected)
            /\ sh.model # <<>> => sh.model = selected
            /\ sh.cache # <<>> => sh.cache = selected

====
